---- MODULE Spec2Model ----
(***************************************************************************)
(* Verification model of the pHouseMcp HTTP transport layer                *)
(* (src/src/lib/http-transport.ts, src/packages/http-transport), the       *)
(* gateway start-up loop (src/src/gateway.ts) and the cron server's        *)
(* parseDelay.                                                             *)
(*                                                                         *)
(* Conventions                                                             *)
(*   - a JavaScript value that may be undefined is a string, with          *)
(*     Undefined standing for undefined and "" for the empty string; the   *)
(*     code's truthiness tests (sessionId && ..., !redirect_uri) are       *)
(*     Truthy / ~Truthy;                                                   *)
(*   - every await of a handler is a point where other handlers may run:   *)
(*     a handler is one action per stretch of code between two awaits;     *)
(*   - randomUUID() returns a value never returned before.                 *)
(***************************************************************************)
EXTENDS Integers, Sequences, FiniteSets, TLC

\* ------------------------------------------------------------------ bounds
\* Transport objects (and so session ids) that may be created in one run.
MaxTransports == 2

\* ---------------------------------------------------------------- values
Undefined == "<undefined>"

Truthy(v) == v # Undefined /\ v # ""

\* randomUUID(): the value of its k-th call. A transport calls it once, for its
\* session id, so the ids of sessions are indexed by transport; the authorization
\* codes by the count of codes issued.
Uuids == <<"u1", "u2", "u3", "u4", "u5", "u6">>

randomUUID(k) == Uuids[k]

\* A session id no transport ever issued.
BogusId == "zz"


\* JSON-RPC bodies, as isInitializeRequest sees them.
Bodies == {"initialize", "tools/call"}

isInitializeRequest(body) == body = "initialize"

\* Bearer tokens a client may present (Undefined: no Authorization header).
ClientSecret == "secret"

Tokens == {Undefined, ClientSecret, "wrong"}

\* Base paths: two gateway mounts, or the single /mcp route of startHttpServer.
GatewayMounts == {"p", "q"}

StandaloneMount == "standalone"

VARIABLES
    mode,           \* "gateway" (createGatewayServer) or "standalone" (startHttpServer)
    authEnabled,    \* getAuthConfig().enabled
    mounted,        \* base paths whose {base}/mcp routes are registered
    listener,       \* "listening" | "closing" | "closed" (httpServer)
    allTransports,  \* session registry, in insertion order: Seq of [sid, transport, serverName]
    transports,     \* transport objects: Seq of [serverName, sessionId, closed]
    pending,        \* initialize handlers suspended at `await server.connect(transport)`
    nextUuid,       \* number of authorization codes drawn, plus one
    closePc,        \* close(): "idle" | "sweep" | "listener" | "resolved"
    sweepKeys,      \* startHttpServer close(): the Object.keys snapshot still to visit
    sweepCursor,    \* gateway close(): entries the Map iterator has passed
    last            \* the request or event handled by the latest step, and its response

VARIABLES
    authCodes,      \* the authCodes Map: code -> stored record
    now,            \* Date.now(), in milliseconds
    codeLog,        \* per issued code: when it was issued and how often it was exchanged
    oauthLast       \* the latest OAuth request and its response

VARIABLES
    configs,        \* serverConfigs, with what the environment holds for each
    mainPc,         \* main(): "loop" | "creating" | "ready" | "fatal"
    loopIdx,        \* main(): index of the candidate the loop is at
    loadedServers,  \* main(): loadedServers
    skippedServers, \* main(): skippedServers
    env             \* process.env, on the keys the candidates require

VARIABLES
    delayNow,       \* parseDelay: the instant `new Date()` returns
    delayInput,     \* parseDelay: the delay string, as a sequence of lexemes
    delayOffset,    \* parseDelay: hours America/Toronto is behind UTC at the call (4 or 5)
    delayResult     \* parseDelay: the value returned ("pending" before the call)

VARIABLES
    cronFile,       \* the jobs file: [exists, readable, writable, jobs], jobs in file order
    cronNow,        \* cron server: the instant `new Date()` returns
    cronInFlight,   \* cron server in HTTP mode: tool calls received and not yet handled
    cronLast        \* the tool call handled by the latest step, and its result

VARIABLES
    histories,      \* the history files: channel id -> the messages of its file, in file order
    historyLast     \* the latest call of saveMessage or get_history, and what it returned

VARIABLES
    serverTransport \* per mounted Server object: the transport it is connected to

sessionVars == <<mode, authEnabled, mounted, listener, allTransports, transports,
                 pending, nextUuid, closePc, sweepKeys, sweepCursor, last,
                 serverTransport>>

oauthVars == <<authCodes, now, codeLog, oauthLast>>

startupVars == <<configs, mainPc, loopIdx, loadedServers, skippedServers, env>>

delayVars == <<delayNow, delayInput, delayOffset, delayResult>>

cronVars == <<cronFile, cronNow, cronInFlight, cronLast>>

historyVars == <<histories, historyLast>>

\* ------------------------------------------------------------- registry
\* Map.has / `transports[sid]` truthiness.
Has(reg, sid) == \E i \in 1..Len(reg) : reg[i].sid = sid

\* Map.get / `transports[sid]`.
Get(reg, sid) == reg[CHOOSE i \in 1..Len(reg) : reg[i].sid = sid]

IndexOf(reg, sid) == CHOOSE i \in 1..Len(reg) : reg[i].sid = sid

\* Map.set / `transports[sid] = transport` (a new key goes last).
RegSet(reg, sid, t, name) ==
    IF Has(reg, sid)
      THEN [reg EXCEPT ![IndexOf(reg, sid)] = [sid |-> sid, transport |-> t, serverName |-> name]]
      ELSE Append(reg, [sid |-> sid, transport |-> t, serverName |-> name])

\* Map.delete / `delete transports[sid]`.
RegDelete(reg, sid) == SelectSeq(reg, LAMBDA e : e.sid # sid)

Sids(reg) == {reg[i].sid : i \in 1..Len(reg)}

\* The position of a live Map iterator after the entry under key sid is deleted.
CursorAfterDelete(reg, sid, cursor) ==
    IF Has(reg, sid) /\ IndexOf(reg, sid) <= cursor THEN cursor - 1 ELSE cursor

\* ------------------------------------------------------------- responses
NoTransport == 0

Response(op, m, hdr, body, tok, status, code, fwd, sid) ==
    [op |-> op, mount |-> m, hdr |-> hdr, body |-> body, tok |-> tok,
     status |-> status, code |-> code, fwd |-> fwd, sid |-> sid, sentOn |-> NoTransport,
     escaped |-> FALSE,
     threw |-> FALSE, health |-> "none", regBefore |-> allTransports, transportsBefore |-> Len(transports),
     closedBefore |-> {t \in 1..Len(transports) : transports[t].closed}]

\* A step that answers no request (a close event, a step of close()).
Event(name, t) ==
    Response(name, Undefined, Undefined, Undefined, Undefined, 0, 0, t, Undefined)

\* ------------------------------------------------- the Server object of a mount
\* mount(basePath, server, name) and startHttpServer(server, ...) hold one Server
\* object and call `server.connect(transport)` on it for every new session. A Server
\* has one transport: the one its responses are sent on.
ConnectedTransport(st, name) == IF name \in DOMAIN st THEN st[name] ELSE NoTransport

\* server.connect(transport): the Server's transport becomes the one passed.
connect(st, name, t) ==
    [x \in DOMAIN st \cup {name} |-> IF x = name THEN t ELSE st[x]]

\* The onclose that connect chained in front of the transport's own: the Server is
\* left without a transport, whichever transport it was on.
ServerOnClose(st, name) == [x \in DOMAIN st \ {name} |-> st[x]]

\* ------------------------------------------------------------------ auth
\* A verifier that accepts every token presented.
verifyAnyToken(token) == TRUE

\* createStaticTokenVerifier.verifyAccessToken: throws unless the token is the secret.
verifyAccessToken(token) == token = ClientSecret

\* requireBearerAuth in front of a route: next() is called only for a verified token;
\* without MCP_AUTH_CLIENT_SECRET the routes are registered without it.
AuthPasses(token) == authEnabled => (token # Undefined /\ verifyAccessToken(token))

\* The middleware's rejection: 401 for a missing header, 500 for the Error thrown
\* by verifyAccessToken; the route handler is not called.
AuthReject(m, op, tok) ==
    /\ listener = "listening"
    /\ m \in mounted
    /\ op \in {"POST", "GET", "DELETE"}
    /\ ~AuthPasses(tok)
    /\ last' = Response(op, m, Undefined, Undefined, tok,
                        IF tok = Undefined THEN 401 ELSE 500, 0, NoTransport, Undefined)
    /\ UNCHANGED <<serverTransport, mode, authEnabled, mounted, listener, allTransports, transports,
                   pending, nextUuid, closePc, sweepKeys, sweepCursor>>
    /\ UNCHANGED <<oauthVars, startupVars, delayVars, cronVars, historyVars>>

\* ------------------------------------------------------- mcpPostHandler
\* Outcomes of the SDK's transport.handleRequest, which the repository calls.
HandleOutcomes == {"ok", "reject", "throw"}

\* `sessionId && allTransports.has(sessionId)` (`transports[sessionId]` in startHttpServer).
ExistingSession(hdr) == Truthy(hdr) /\ Has(allTransports, hdr)

\* A handler that creates a session for any initialize body, whatever the header.
NewSessionAnyHeader(hdr, body) == isInitializeRequest(body)

\* `!sessionId && isInitializeRequest(req.body)`.
NewSession(hdr, body) == ~Truthy(hdr) /\ isInitializeRequest(body)

\* First branch: the session id is registered; the request goes to the
\* registered transport; an exception is caught and answered 500 / -32603.
PostExisting(m, hdr, body, tok, outcome) ==
    /\ listener = "listening"
    /\ m \in mounted
    /\ AuthPasses(tok)
    /\ ExistingSession(hdr)
    /\ outcome \in {"ok", "throw"}
    /\ LET t == Get(allTransports, hdr).transport
       IN last' = IF outcome = "ok"
                    THEN [Response("POST", m, hdr, body, tok, 200, 0, t, Undefined)
                            EXCEPT !.sentOn = ConnectedTransport(serverTransport,
                                                                 transports[t].serverName)]
                    ELSE [Response("POST", m, hdr, body, tok, 500, -32603, t, Undefined)
                            EXCEPT !.threw = TRUE]
    /\ UNCHANGED <<serverTransport, mode, authEnabled, mounted, listener, allTransports, transports,
                   pending, nextUuid, closePc, sweepKeys, sweepCursor>>
    /\ UNCHANGED <<oauthVars, startupVars, delayVars, cronVars, historyVars>>

\* Second branch: no session id and an initialize body; a transport is
\* constructed and the handler suspends at `await server.connect(transport)`.
\* connect on a Server that has a transport either moves the Server to the new
\* transport or throws "Already connected", by the version of the SDK installed.
PostInitialize(m, hdr, body, tok) ==
    /\ listener = "listening"
    /\ m \in mounted
    /\ AuthPasses(tok)
    /\ ~ExistingSession(hdr)
    /\ NewSession(hdr, body)
    /\ Len(transports) < MaxTransports
    /\ transports' = Append(transports,
                            [serverName |-> m, sessionId |-> Undefined, closed |-> FALSE])
    /\ \E connected \in IF ConnectedTransport(serverTransport, m) = NoTransport
                          THEN {TRUE} ELSE BOOLEAN :
          /\ serverTransport' = IF connected
                                  THEN connect(serverTransport, m, Len(transports) + 1)
                                  ELSE serverTransport
          /\ pending' = pending \cup {[transport |-> Len(transports) + 1, mount |-> m,
                                       hdr |-> hdr, body |-> body, tok |-> tok,
                                       connected |-> connected]}
    /\ last' = Event("suspended", Len(transports) + 1)
    /\ UNCHANGED <<mode, authEnabled, mounted, listener, allTransports, nextUuid,
                   closePc, sweepKeys, sweepCursor>>
    /\ UNCHANGED <<oauthVars, startupVars, delayVars, cronVars, historyVars>>

\* The rest of the second branch: `await transport.handleRequest(req, res, req.body)`.
\* The SDK draws the session id and calls onsessioninitialized, which registers the
\* transport ("ok"); or it answers an error itself ("reject", such as 406); or
\* connect or handleRequest throws and the catch answers 500.
InitializeHandled(p, outcome) ==
    /\ p \in pending
    /\ outcome \in HandleOutcomes
    /\ ~p.connected => outcome = "throw"
    /\ pending' = pending \ {p}
    /\ IF outcome = "ok"
         THEN LET sid == randomUUID(p.transport)
              IN /\ UNCHANGED nextUuid
                 /\ transports' = [transports EXCEPT ![p.transport].sessionId = sid]
                 /\ allTransports' = RegSet(allTransports, sid, p.transport, p.mount)
                 /\ last' = [Response("POST", p.mount, p.hdr, p.body, p.tok, 200, 0,
                                      p.transport, sid)
                               EXCEPT !.sentOn = ConnectedTransport(serverTransport, p.mount)]
         ELSE /\ UNCHANGED <<nextUuid, transports, allTransports>>
              /\ last' = IF outcome = "reject"
                           THEN Response("POST", p.mount, p.hdr, p.body, p.tok, 406, -32000,
                                         p.transport, Undefined)
                           ELSE [Response("POST", p.mount, p.hdr, p.body, p.tok, 500,
                                          -32603, p.transport, Undefined)
                                   EXCEPT !.threw = TRUE]
    /\ UNCHANGED <<serverTransport, mode, authEnabled, mounted, listener, closePc, sweepKeys, sweepCursor>>
    /\ UNCHANGED <<oauthVars, startupVars, delayVars, cronVars, historyVars>>

\* Third branch: 400 with JSON-RPC error -32000 "Bad Request: No valid session ID".
PostRejected(m, hdr, body, tok) ==
    /\ listener = "listening"
    /\ m \in mounted
    /\ AuthPasses(tok)
    /\ ~ExistingSession(hdr)
    /\ ~NewSession(hdr, body)
    /\ last' = Response("POST", m, hdr, body, tok, 400, -32000, NoTransport, Undefined)
    /\ UNCHANGED <<serverTransport, mode, authEnabled, mounted, listener, allTransports, transports,
                   pending, nextUuid, closePc, sweepKeys, sweepCursor>>
    /\ UNCHANGED <<oauthVars, startupVars, delayVars, cronVars, historyVars>>

\* -------------------------------------------------------- transport.onclose
\* An onclose that leaves the registry as it is.
OnCloseKeepsEntry(reg, t) == reg

\* `const sid = transport.sessionId; if (sid && allTransports.has(sid)) delete`.
OnCloseRegistry(reg, t) ==
    LET sid == transports[t].sessionId
    IN IF Truthy(sid) /\ Has(reg, sid) THEN RegDelete(reg, sid) ELSE reg

OnCloseCursor(reg, t, cursor) ==
    LET sid == transports[t].sessionId
    IN IF Truthy(sid) THEN CursorAfterDelete(reg, sid, cursor) ELSE cursor

\* transport.close() running to its end: the transport is closed and onclose has run.
CloseTransport(t) ==
    /\ transports' = [transports EXCEPT ![t].closed = TRUE]
    /\ allTransports' = OnCloseRegistry(allTransports, t)
    /\ sweepCursor' = OnCloseCursor(allTransports, t, sweepCursor)
    /\ serverTransport' = ServerOnClose(serverTransport, transports[t].serverName)

\* A close event of an initialized transport that no request of this server asked for.
TransportClose(t) ==
    /\ t \in 1..Len(transports)
    /\ ~transports[t].closed
    /\ Truthy(transports[t].sessionId)
    /\ CloseTransport(t)
    /\ last' = Event("close", t)
    /\ UNCHANGED <<mode, authEnabled, mounted, listener, pending, nextUuid, closePc,
                   sweepKeys>>
    /\ UNCHANGED <<oauthVars, startupVars, delayVars, cronVars, historyVars>>

\* ---------------------------------------------------- handleSessionRequest
\* `!sessionId || !allTransports.has(sessionId)`: 400 "Invalid or missing session ID".
SessionRequestRejected(m, op, hdr, tok) ==
    /\ listener = "listening"
    /\ m \in mounted
    /\ op \in {"GET", "DELETE"}
    /\ AuthPasses(tok)
    /\ ~ExistingSession(hdr)
    /\ last' = Response(op, m, hdr, Undefined, tok, 400, 0, NoTransport, Undefined)
    /\ UNCHANGED <<serverTransport, mode, authEnabled, mounted, listener, allTransports, transports,
                   pending, nextUuid, closePc, sweepKeys, sweepCursor>>
    /\ UNCHANGED <<oauthVars, startupVars, delayVars, cronVars, historyVars>>

\* GET forwarded to the registered transport; no try/catch surrounds the await.
GetForwarded(m, hdr, tok, outcome) ==
    /\ listener = "listening"
    /\ m \in mounted
    /\ AuthPasses(tok)
    /\ ExistingSession(hdr)
    /\ outcome \in {"ok", "throw"}
    /\ LET t == Get(allTransports, hdr).transport
       IN last' = IF outcome = "ok"
                    THEN Response("GET", m, hdr, Undefined, tok, 200, 0, t, Undefined)
                    ELSE [Response("GET", m, hdr, Undefined, tok, 0, 0, t, Undefined)
                            EXCEPT !.escaped = TRUE, !.threw = TRUE]
    /\ UNCHANGED <<serverTransport, mode, authEnabled, mounted, listener, allTransports, transports,
                   pending, nextUuid, closePc, sweepKeys, sweepCursor>>
    /\ UNCHANGED <<oauthVars, startupVars, delayVars, cronVars, historyVars>>

\* DELETE forwarded to the registered transport: the SDK closes the transport, which
\* runs onclose ("ok"), or answers an error without closing ("reject"), or throws.
DeleteForwarded(m, hdr, tok, outcome) ==
    /\ listener = "listening"
    /\ m \in mounted
    /\ AuthPasses(tok)
    /\ ExistingSession(hdr)
    /\ outcome \in HandleOutcomes
    /\ LET t == Get(allTransports, hdr).transport
       IN /\ IF outcome = "ok"
               THEN CloseTransport(t)
               ELSE UNCHANGED <<transports, allTransports, sweepCursor, serverTransport>>
          /\ last' = CASE outcome = "ok" ->
                             Response("DELETE", m, hdr, Undefined, tok, 200, 0, t, Undefined)
                        [] outcome = "reject" ->
                             Response("DELETE", m, hdr, Undefined, tok, 400, -32000, t, Undefined)
                        [] OTHER ->
                             [Response("DELETE", m, hdr, Undefined, tok, 0, 0, t, Undefined)
                                EXCEPT !.escaped = TRUE, !.threw = TRUE]
    /\ UNCHANGED <<mode, authEnabled, mounted, listener, pending, nextUuid, closePc,
                   sweepKeys>>
    /\ UNCHANGED <<oauthVars, startupVars, delayVars, cronVars, historyVars>>

\* ------------------------------------------------------------------ close()
\* SIGINT / SIGTERM: close() starts. The gateway iterates the Map itself (a live
\* iterator); startHttpServer iterates a snapshot, Object.keys(transports).
CloseStart ==
    /\ closePc = "idle"
    /\ closePc' = "sweep"
    /\ sweepCursor' = 0
    /\ sweepKeys' = IF mode = "standalone"
                      THEN [i \in 1..Len(allTransports) |-> allTransports[i].sid]
                      ELSE <<>>
    /\ last' = Event("close()", NoTransport)
    /\ UNCHANGED <<serverTransport, mode, authEnabled, mounted, listener, allTransports, transports,
                   pending, nextUuid>>
    /\ UNCHANGED <<oauthVars, startupVars, delayVars, cronVars, historyVars>>

\* Gateway: one turn of `for (... of allTransports) { try { await transport.close() }
\* catch { log } }`. A close() that throws leaves the entry to clear().
GatewaySweepStep(outcome) ==
    /\ mode = "gateway"
    /\ closePc = "sweep"
    /\ sweepCursor < Len(allTransports)
    /\ outcome \in {"ok", "throw"}
    /\ LET t == allTransports[sweepCursor + 1].transport
       IN /\ IF outcome = "ok"
               THEN /\ transports' = [transports EXCEPT ![t].closed = TRUE]
                    /\ allTransports' = OnCloseRegistry(allTransports, t)
                    /\ sweepCursor' = OnCloseCursor(allTransports, t, sweepCursor + 1)
                    /\ serverTransport' = ServerOnClose(serverTransport,
                                                        transports[t].serverName)
               ELSE /\ sweepCursor' = sweepCursor + 1
                    /\ UNCHANGED <<transports, allTransports, serverTransport>>
          /\ last' = Event("sweep", t)
    /\ UNCHANGED <<mode, authEnabled, mounted, listener, pending, nextUuid, closePc,
                   sweepKeys>>
    /\ UNCHANGED <<oauthVars, startupVars, delayVars, cronVars, historyVars>>

\* Gateway: the iterator is exhausted; `allTransports.clear()` and then
\* `httpServer.close(...)`, which stops accepting connections.
GatewaySweepEnd ==
    /\ mode = "gateway"
    /\ closePc = "sweep"
    /\ sweepCursor >= Len(allTransports)
    /\ allTransports' = <<>>
    /\ listener' = "closing"
    /\ closePc' = "listener"
    /\ last' = Event("clear", NoTransport)
    /\ UNCHANGED <<serverTransport, mode, authEnabled, mounted, transports, pending, nextUuid,
                   sweepKeys, sweepCursor>>
    /\ UNCHANGED <<oauthVars, startupVars, delayVars, cronVars, historyVars>>

\* startHttpServer: one turn of `for (const sessionId of Object.keys(transports))
\* { try { await transports[sessionId].close(); delete transports[sessionId]; }
\* catch { log } }`. An id deregistered since the snapshot makes the call throw.
StandaloneSweepStep(outcome) ==
    /\ mode = "standalone"
    /\ closePc = "sweep"
    /\ sweepKeys # <<>>
    /\ outcome \in {"ok", "throw"}
    /\ LET sid == Head(sweepKeys)
       IN IF Has(allTransports, sid) /\ outcome = "ok"
            THEN LET t == Get(allTransports, sid).transport
                 IN /\ transports' = [transports EXCEPT ![t].closed = TRUE]
                    /\ allTransports' = RegDelete(OnCloseRegistry(allTransports, t), sid)
                    /\ serverTransport' = ServerOnClose(serverTransport,
                                                        transports[t].serverName)
                    /\ last' = Event("sweep", t)
            ELSE /\ UNCHANGED <<transports, allTransports, serverTransport>>
                 /\ last' = Event("sweep", NoTransport)
    /\ sweepKeys' = Tail(sweepKeys)
    /\ UNCHANGED <<mode, authEnabled, mounted, listener, pending, nextUuid, closePc,
                   sweepCursor>>
    /\ UNCHANGED <<oauthVars, startupVars, delayVars, cronVars, historyVars>>

\* startHttpServer: the snapshot is exhausted; `httpServer.close(...)`.
StandaloneSweepEnd ==
    /\ mode = "standalone"
    /\ closePc = "sweep"
    /\ sweepKeys = <<>>
    /\ listener' = "closing"
    /\ closePc' = "listener"
    /\ last' = Event("listener", NoTransport)
    /\ UNCHANGED <<serverTransport, mode, authEnabled, mounted, allTransports, transports, pending,
                   nextUuid, sweepKeys, sweepCursor>>
    /\ UNCHANGED <<oauthVars, startupVars, delayVars, cronVars, historyVars>>

\* The callback of httpServer.close: every connection has ended, so no request is
\* in flight; the promise close() returned resolves.
CloseResolved ==
    /\ closePc = "listener"
    /\ pending = {}
    /\ listener' = "closed"
    /\ closePc' = "resolved"
    /\ last' = Event("resolved", NoTransport)
    /\ UNCHANGED <<serverTransport, mode, authEnabled, mounted, allTransports, transports, pending,
                   nextUuid, sweepKeys, sweepCursor>>
    /\ UNCHANGED <<oauthVars, startupVars, delayVars, cronVars, historyVars>>

\* ------------------------------------------------------- session layer
InitSessions(md, routes) ==
    /\ mode = md
    /\ authEnabled \in BOOLEAN
    /\ mounted = routes
    /\ listener = "listening"
    /\ allTransports = <<>>
    /\ transports = <<>>
    /\ pending = {}
    /\ nextUuid = 1
    /\ closePc = "idle"
    /\ sweepKeys = <<>>
    /\ sweepCursor = 0
    /\ serverTransport = [name \in {} |-> NoTransport]
    /\ last = [op |-> "none", mount |-> Undefined, hdr |-> Undefined, body |-> Undefined,
               tok |-> Undefined, status |-> 0, code |-> 0, fwd |-> NoTransport,
               sid |-> Undefined, sentOn |-> NoTransport, escaped |-> FALSE,
               threw |-> FALSE, health |-> "none",
               regBefore |-> <<>>,
               transportsBefore |-> 0, closedBefore |-> {}]

\* Mcp-Session-Id header values a client may send: none, an empty one, an id no
\* transport issued, and the ids issued so far (whether still registered or not).
HeaderValues ==
    {Undefined, "", BogusId}
        \cup {transports[t].sessionId : t \in {u \in 1..Len(transports) :
                                                Truthy(transports[u].sessionId)}}

\* Without MCP_AUTH_CLIENT_SECRET no code reads the Authorization header.
TokensSent == IF authEnabled THEN Tokens ELSE {Undefined}

Requests ==
    \E m \in mounted, tok \in TokensSent :
        \/ \E op \in {"POST", "GET", "DELETE"} : AuthReject(m, op, tok)
        \/ \E hdr \in HeaderValues :
              \/ \E body \in Bodies, outcome \in {"ok", "throw"} :
                    PostExisting(m, hdr, body, tok, outcome)
              \/ \E body \in Bodies : PostInitialize(m, hdr, body, tok)
              \/ \E body \in Bodies : PostRejected(m, hdr, body, tok)
              \/ \E op \in {"GET", "DELETE"} : SessionRequestRejected(m, op, hdr, tok)
              \/ \E outcome \in {"ok", "throw"} : GetForwarded(m, hdr, tok, outcome)
              \/ \E outcome \in HandleOutcomes : DeleteForwarded(m, hdr, tok, outcome)

Continuations ==
    \/ \E p \in pending, outcome \in HandleOutcomes : InitializeHandled(p, outcome)
    \/ \E t \in 1..Len(transports) : TransportClose(t)

Shutdown ==
    \/ CloseStart
    \/ \E outcome \in {"ok", "throw"} : GatewaySweepStep(outcome)
    \/ GatewaySweepEnd
    \/ \E outcome \in {"ok", "throw"} : StandaloneSweepStep(outcome)
    \/ StandaloneSweepEnd
    \/ CloseResolved

\* ------------------------------------------------------------------ OAuth
\* Authorization codes issued in one run.
MaxCodes == 1

CodeLifetime == 10 * 60 * 1000

\* createHash("sha256").update(v).digest("base64url"), on the verifiers of the model:
\* distinct verifiers have distinct digests, and no digest is its own verifier.
sha256base64url(v) ==
    CASE v = "v1" -> "h1"
      [] v = "v2" -> "h2"
      [] OTHER -> "h0"

\* A verifyPkce that compares as "plain" under every method other than S256.
verifyPkceDefaultPlain(codeVerifier, codeChallenge, method) ==
    IF method = "S256"
      THEN sha256base64url(codeVerifier) = codeChallenge
      ELSE codeVerifier = codeChallenge

verifyPkce(codeVerifier, codeChallenge, method) ==
    IF method = "S256"
      THEN sha256base64url(codeVerifier) = codeChallenge
      ELSE IF method = "plain"
             THEN codeVerifier = codeChallenge
             ELSE FALSE

\* `value || fallback`.
OrElse(value, fallback) == IF Truthy(value) THEN value ELSE fallback

\* The Location of a redirect: none.
NoLocation == [uri |-> Undefined, code |-> Undefined, state |-> Undefined]

\* The query of an authorize request, beside client_id and redirect_uri.
AuthorizeQuery(response_type, code_challenge, method, state) ==
    [response_type |-> response_type, code_challenge |-> code_challenge,
     code_challenge_method |-> method, state |-> state]

OAuthResponse(op, grant, code, redirect, verifier, status, error, description, token) ==
    [op |-> op, grant_type |-> grant, code |-> code, redirect_uri |-> redirect,
     code_verifier |-> verifier, status |-> status, error |-> error,
     description |-> description, access_token |-> token,
     liveBefore |-> code \in DOMAIN authCodes, at |-> now,
     exchangedBefore |-> IF code \in DOMAIN codeLog THEN codeLog[code].exchanges ELSE 0,
     query |-> AuthorizeQuery(Undefined, Undefined, Undefined, Undefined),
     location |-> NoLocation, codesBefore |-> DOMAIN authCodes]

\* The instants at which requests arrive: server start, the last millisecond of the
\* life of a code issued at start, and the first millisecond after it.
ClockValues == {0, CodeLifetime, CodeLifetime + 1}

\* Time passes between requests.
Tick(t) ==
    /\ t \in ClockValues
    /\ t > now
    /\ now' = t
    /\ oauthLast' = [oauthLast EXCEPT !.op = "none"]
    /\ UNCHANGED <<authCodes, codeLog>>
    /\ UNCHANGED <<sessionVars, startupVars, delayVars, cronVars, historyVars>>

\* GET /oauth/authorize, rejected: response_type is not "code", or redirect_uri or
\* code_challenge is missing.
AuthorizeRejected(response_type, client_id, redirect_uri, code_challenge, method) ==
    /\ authEnabled
    /\ listener = "listening"
    /\ response_type # "code" \/ ~Truthy(redirect_uri) \/ ~Truthy(code_challenge)
    /\ oauthLast' =
         [(IF response_type # "code"
             THEN OAuthResponse("authorize", Undefined, Undefined, redirect_uri, Undefined,
                                400, "unsupported_response_type", Undefined, Undefined)
             ELSE OAuthResponse("authorize", Undefined, Undefined, redirect_uri, Undefined,
                                400, "invalid_request", "Missing required parameters",
                                Undefined))
          EXCEPT !.query = AuthorizeQuery(response_type, code_challenge, method, Undefined)]
    /\ UNCHANGED <<authCodes, now, codeLog>>
    /\ UNCHANGED <<sessionVars, startupVars, delayVars, cronVars, historyVars>>

\* The record authorize stores under a fresh code.
StoredCode(client_id, redirect_uri, code_challenge, method, t) ==
    [codeChallenge |-> code_challenge,
     codeChallengeMethod |-> OrElse(method, "S256"),
     redirectUri |-> redirect_uri,
     clientId |-> OrElse(client_id, "unknown"),
     expiresAt |-> t + CodeLifetime]

\* Strings `new URL(...)` accepts; it throws TypeError on any other.
AbsoluteUrls == {"https://a/cb", "https://b/cb"}

\* GET /oauth/authorize, accepted: a fresh code is stored, and then the redirect is
\* built with `new URL(redirect_uri)`; when that throws, the request ends in the
\* framework's 500 and the code stays stored.
Authorize(response_type, client_id, redirect_uri, code_challenge, method, state) ==
    /\ authEnabled
    /\ listener = "listening"
    /\ response_type = "code" /\ Truthy(redirect_uri) /\ Truthy(code_challenge)
    /\ Cardinality(DOMAIN codeLog) < MaxCodes
    /\ LET code == randomUUID(nextUuid)
           rec == StoredCode(client_id, redirect_uri, code_challenge, method, now)
       IN /\ authCodes' = [c \in DOMAIN authCodes \cup {code} |->
                             IF c = code THEN rec ELSE authCodes[c]]
          /\ codeLog' = [c \in DOMAIN codeLog \cup {code} |->
                           IF c = code
                             THEN [issuedAt |-> now, exchanges |-> 0, expired |-> FALSE,
                                   stored |-> rec]
                             ELSE codeLog[c]]
          /\ oauthLast' =
               [OAuthResponse("authorize", Undefined, code, redirect_uri, Undefined,
                              IF redirect_uri \in AbsoluteUrls THEN 302 ELSE 500,
                              Undefined, Undefined, Undefined)
                EXCEPT !.query = AuthorizeQuery(response_type, code_challenge, method, state),
                       !.location =
                           IF redirect_uri \in AbsoluteUrls
                             THEN [uri |-> redirect_uri, code |-> code,
                                   state |-> IF Truthy(state) THEN state ELSE Undefined]
                             ELSE NoLocation]
    /\ nextUuid' = nextUuid + 1
    /\ UNCHANGED now
    /\ UNCHANGED <<serverTransport, mode, authEnabled, mounted, listener, allTransports, transports,
                   pending, closePc, sweepKeys, sweepCursor, last>>
    /\ UNCHANGED <<startupVars, delayVars, cronVars, historyVars>>

\* A handler without the expiry test.
NeverExpired(t, authCode) == FALSE

\* `Date.now() > authCode.expiresAt`.
Expired(t, authCode) == t > authCode.expiresAt

\* A comparison that is made also when the request supplies no redirect_uri.
RedirectMismatchAlways(redirect_uri, authCode) == redirect_uri # authCode.redirectUri

\* `redirect_uri && redirect_uri !== authCode.redirectUri`.
RedirectMismatch(redirect_uri, authCode) ==
    Truthy(redirect_uri) /\ redirect_uri # authCode.redirectUri

\* A delete that removes nothing.
KeepCode(codes, code) == codes

\* `authCodes.delete(code)`.
DeleteCode(codes, code) == [c \in DOMAIN codes \ {code} |-> codes[c]]

\* The error a token request is answered with, or "none" when every check passes;
\* the checks run in the order of the handler.
TokenError(grant_type, code, redirect_uri, code_verifier) ==
    IF grant_type # "authorization_code" THEN "unsupported_grant_type"
    ELSE IF code \notin DOMAIN authCodes THEN "Invalid or expired code"
    ELSE IF Expired(now, authCodes[code]) THEN "Code expired"
    ELSE IF RedirectMismatch(redirect_uri, authCodes[code]) THEN "Redirect URI mismatch"
    ELSE IF ~Truthy(code_verifier)
           THEN IF mode = "gateway" THEN "PKCE verification failed"
                                    ELSE "Missing code_verifier"
    ELSE IF ~verifyPkce(code_verifier, authCodes[code].codeChallenge,
                        authCodes[code].codeChallengeMethod)
           THEN "PKCE verification failed"
    ELSE "none"

\* A handler that deletes the code before every rejection.
DeletedOnAnyRejection(err) == TRUE

\* The rejections whose branch calls authCodes.delete(code): the expiry branch only.
DeletedOnRejection(err) == err = "Code expired"

\* POST /oauth/token, rejected with 400; only an expired code is deleted.
TokenRejected(grant_type, code, redirect_uri, code_verifier) ==
    /\ authEnabled
    /\ listener = "listening"
    /\ LET err == TokenError(grant_type, code, redirect_uri, code_verifier)
       IN /\ err # "none"
          /\ oauthLast' =
               IF err = "unsupported_grant_type"
                 THEN OAuthResponse("token", grant_type, code, redirect_uri, code_verifier,
                                    400, "unsupported_grant_type", Undefined, Undefined)
                 ELSE OAuthResponse("token", grant_type, code, redirect_uri, code_verifier,
                                    400, "invalid_grant", err, Undefined)
          /\ authCodes' = IF DeletedOnRejection(err) /\ code \in DOMAIN authCodes
                            THEN DeleteCode(authCodes, code)
                            ELSE authCodes
          /\ codeLog' = IF err = "Code expired"
                          THEN [codeLog EXCEPT ![code].expired = TRUE]
                          ELSE codeLog
    /\ UNCHANGED now
    /\ UNCHANGED <<sessionVars, startupVars, delayVars, cronVars, historyVars>>

\* POST /oauth/token, every check passed: the code is deleted and the configured
\* client secret returned as the access token.
TokenIssued(grant_type, code, redirect_uri, code_verifier) ==
    /\ authEnabled
    /\ listener = "listening"
    /\ TokenError(grant_type, code, redirect_uri, code_verifier) = "none"
    /\ authCodes' = DeleteCode(authCodes, code)
    /\ codeLog' = [codeLog EXCEPT ![code].exchanges = @ + 1]
    /\ oauthLast' = OAuthResponse("token", grant_type, code, redirect_uri, code_verifier,
                                  200, Undefined, Undefined, ClientSecret)
    /\ UNCHANGED now
    /\ UNCHANGED <<sessionVars, startupVars, delayVars, cronVars, historyVars>>

\* --------------------------------------------------------- gateway main()
\* Candidates in serverConfigs.
NumCandidates == 2

CandidateNames == <<"p", "q", "r">>

EnvKeys == {"K1", "K2"}

\* checkEnvVars: `vars.every((v) => !!process.env[v])`.
checkEnvVars(requiredEnv) ==
    \A i \in 1..Len(requiredEnv) : Truthy(env[requiredEnv[i]])

\* A loop that does not consult checkFn.
CheckFnIgnored(cfg) == TRUE

\* `cfg.checkFn` is absent ("none"), or its result has ok true ("ok") or false ("missing").
CheckFnPasses(cfg) == cfg.checkFn = "none" \/ cfg.checkFn = "ok"

Cfg == configs[loopIdx]

\* `if (!checkEnvVars(cfg.requiredEnv)) { skippedServers.push(cfg.name); continue; }`
SkipMissingEnv ==
    /\ mainPc = "loop"
    /\ loopIdx <= Len(configs)
    /\ ~checkEnvVars(Cfg.requiredEnv)
    /\ skippedServers' = Append(skippedServers, Cfg.name)
    /\ loopIdx' = loopIdx + 1
    /\ UNCHANGED <<configs, mainPc, loadedServers, env>>
    /\ UNCHANGED <<sessionVars, oauthVars, delayVars, cronVars, historyVars>>

\* `if (cfg.checkFn) { const check = cfg.checkFn(); if (!check.ok) { skip; continue; } }`
SkipFailedCheck ==
    /\ mainPc = "loop"
    /\ loopIdx <= Len(configs)
    /\ checkEnvVars(Cfg.requiredEnv)
    /\ ~CheckFnPasses(Cfg)
    /\ skippedServers' = Append(skippedServers, Cfg.name)
    /\ loopIdx' = loopIdx + 1
    /\ UNCHANGED <<configs, mainPc, loadedServers, env>>
    /\ UNCHANGED <<sessionVars, oauthVars, delayVars, cronVars, historyVars>>

\* `const server = await cfg.create();`: main() suspends.
CreateCalled ==
    /\ mainPc = "loop"
    /\ loopIdx <= Len(configs)
    /\ checkEnvVars(Cfg.requiredEnv)
    /\ CheckFnPasses(Cfg)
    /\ mainPc' = "creating"
    /\ UNCHANGED <<configs, loopIdx, loadedServers, skippedServers, env>>
    /\ UNCHANGED <<sessionVars, oauthVars, delayVars, cronVars, historyVars>>

\* create() resolved: `gateway.mount(cfg.path, server, cfg.name)` registers the
\* routes of {path}/mcp; `loadedServers.push(cfg.name)`.
CreateResolved ==
    /\ mainPc = "creating"
    /\ Cfg.createOk
    /\ mounted' = mounted \cup {Cfg.name}
    /\ loadedServers' = Append(loadedServers, Cfg.name)
    /\ loopIdx' = loopIdx + 1
    /\ mainPc' = "loop"
    /\ UNCHANGED <<configs, skippedServers, env>>
    /\ UNCHANGED <<serverTransport, mode, authEnabled, listener, allTransports, transports, pending,
                   nextUuid, closePc, sweepKeys, sweepCursor, last>>
    /\ UNCHANGED <<oauthVars, delayVars, cronVars, historyVars>>

\* create() rejected: the catch logs, pushes the name to skippedServers, and the
\* loop goes on.
CreateRejected ==
    /\ mainPc = "creating"
    /\ ~Cfg.createOk
    /\ skippedServers' = Append(skippedServers, Cfg.name)
    /\ loopIdx' = loopIdx + 1
    /\ mainPc' = "loop"
    /\ UNCHANGED <<configs, loadedServers, env>>
    /\ UNCHANGED <<sessionVars, oauthVars, delayVars, cronVars, historyVars>>

\* The loop is over: the shutdown handlers are registered, "Gateway ready!".
LoopDone ==
    /\ mainPc = "loop"
    /\ loopIdx > Len(configs)
    /\ mainPc' = "ready"
    /\ UNCHANGED <<configs, loopIdx, loadedServers, skippedServers, env>>
    /\ UNCHANGED <<sessionVars, oauthVars, delayVars, cronVars, historyVars>>

\* GET /health: `{ status: "ok", sessions: allTransports.size, authEnabled }`.
Health ==
    /\ listener = "listening"
    /\ last' = [Event("GET /health", NoTransport) EXCEPT
                  !.status = 200,
                  !.health = [status |-> "ok", sessions |-> Len(allTransports),
                              authEnabled |-> authEnabled]]
    /\ UNCHANGED <<serverTransport, mode, authEnabled, mounted, listener, allTransports, transports,
                   pending, nextUuid, closePc, sweepKeys, sweepCursor>>
    /\ UNCHANGED <<startupVars, oauthVars, delayVars, cronVars, historyVars>>

\* A request to {base}/mcp while no route is registered for it: Express answers 404.
NotFound(m, op) ==
    /\ listener = "listening"
    /\ m \notin mounted
    /\ op \in {"POST", "GET", "DELETE"}
    /\ last' = Response(op, m, Undefined, Undefined, Undefined, 404, 0, NoTransport, Undefined)
    /\ UNCHANGED <<serverTransport, mode, authEnabled, mounted, listener, allTransports, transports,
                   pending, nextUuid, closePc, sweepKeys, sweepCursor>>
    /\ UNCHANGED <<configs, mainPc, loopIdx, loadedServers, skippedServers, env>>
    /\ UNCHANGED <<oauthVars, delayVars, cronVars, historyVars>>

\* -------------------------------------------------------------- parseDelay
\* A Date is its time value, the milliseconds since the epoch, held as whole days
\* and milliseconds of the day (the time values of interest exceed 2^31), or the
\* Invalid Date. A string is the sequence of its lexemes: words, digits, blanks.
MsPerDay == 24 * 60 * 60 * 1000

\* The largest time value of a Date is 8.64e15 ms, that is 100,000,000 days.
MaxDateDays == 100000000

InvalidDate == [kind |-> "invalid", day |-> 0, ms |-> 0]

\* null, as parseDelay returns it.
Null == [kind |-> "null", day |-> 0, ms |-> 0]

\* `new Date(value)`: TimeClip makes a time value beyond the range the Invalid Date.
NewDate(day, ms) ==
    LET d == day + (ms \div MsPerDay)
        m == ms % MsPerDay
    IN IF d < 0 \/ d > MaxDateDays \/ (d = MaxDateDays /\ m > 0)
         THEN InvalidDate
         ELSE [kind |-> "date", day |-> d, ms |-> m]

IsWhitespace(x) == x \in {" ", "\t"}

Digits == <<"0", "1", "2", "3", "4", "5", "6", "7", "8", "9">>

IsDigit(x) == \E d \in 1..10 : Digits[d] = x

DigitValue(x) == (CHOOSE d \in 1..10 : Digits[d] = x) - 1

\* String.prototype.toLowerCase, lexeme by lexeme.
toLowerCase(l) ==
    [i \in 1..Len(l) |->
        CASE l[i] = "IN" -> "in"
          [] l[i] = "In" -> "in"
          [] l[i] = "AT" -> "at"
          [] l[i] = "Hour" -> "hour"
          [] l[i] = "MINUTE" -> "minute"
          [] l[i] = "S" -> "s"
          [] l[i] = "PM" -> "pm"
          [] l[i] = "AM" -> "am"
          [] OTHER -> l[i]]

\* String.prototype.trim.
RECURSIVE trim(_)
trim(l) ==
    IF l # <<>> /\ IsWhitespace(Head(l)) THEN trim(Tail(l))
    ELSE IF l # <<>> /\ IsWhitespace(l[Len(l)]) THEN trim(SubSeq(l, 1, Len(l) - 1))
    ELSE l

\* The index after the longest run of blanks (\s*) that starts at i.
RECURSIVE SkipWhitespace(_, _)
SkipWhitespace(l, i) ==
    IF i <= Len(l) /\ IsWhitespace(l[i]) THEN SkipWhitespace(l, i + 1) ELSE i

\* The index after the longest run of digits (\d+) that starts at i.
RECURSIVE SkipDigits(_, _)
SkipDigits(l, i) ==
    IF i <= Len(l) /\ IsDigit(l[i]) THEN SkipDigits(l, i + 1) ELSE i

\* parseInt on a string of decimal digits.
RECURSIVE parseInt(_)
parseInt(ds) ==
    IF ds = <<>> THEN 0
    ELSE 10 * parseInt(SubSeq(ds, 1, Len(ds) - 1)) + DigitValue(ds[Len(ds)])

UnitWords == {"second", "minute", "hour", "day"}

NoMatch == [matched |-> FALSE]

\* lower.match(/^in\s+(\d+)\s+(second|minute|hour|day)s?$/): the groups, or null.
InMatch(l) ==
    IF Len(l) >= 1 /\ l[1] = "in"
    THEN LET a == SkipWhitespace(l, 2)
             b == SkipDigits(l, a)
             c == SkipWhitespace(l, b)
         IN IF /\ a > 2 /\ b > a /\ c > b
               /\ c <= Len(l) /\ l[c] \in UnitWords
               /\ \/ c = Len(l)
                  \/ c + 1 = Len(l) /\ l[c + 1] = "s"
              THEN [matched |-> TRUE, amount |-> SubSeq(l, a, b - 1), unit |-> l[c]]
              ELSE NoMatch
    ELSE NoMatch

\* The table `{ second: 1000, minute: 60 * 1000, hour: ..., day: ... }[unit]`.
UnitMs(unit) ==
    CASE unit = "second" -> 1000
      [] unit = "minute" -> 60 * 1000
      [] unit = "hour" -> 60 * 60 * 1000
      [] unit = "day" -> 24 * 60 * 60 * 1000

\* `new Date(now.getTime() + amount * ms)`; every ms of the table divides a day, so
\* amount * ms is (amount div k) days and (amount mod k) * ms milliseconds, k = day / ms.
DatePlus(t, amount, ms) ==
    LET k == MsPerDay \div ms
    IN NewDate(t.day + (amount \div k), t.ms + (amount % k) * ms)

\* lower.match(/^at\s+(\d{1,2})(?::(\d{2}))?\s*(am|pm)?$/): the groups, or null.
AtMatch(l) ==
    IF Len(l) >= 1 /\ l[1] = "at"
    THEN LET a == SkipWhitespace(l, 2)
             e == SkipDigits(l, a)
             b == IF e - a > 2 THEN a + 2 ELSE e
             hasMin == /\ b + 2 <= Len(l) /\ l[b] = ":"
                       /\ IsDigit(l[b + 1]) /\ IsDigit(l[b + 2])
             c == IF hasMin THEN b + 3 ELSE b
             d == SkipWhitespace(l, c)
             hasAmPm == d <= Len(l) /\ l[d] \in {"am", "pm"}
             f == IF hasAmPm THEN d + 1 ELSE d
         IN IF a > 2 /\ b > a /\ f = Len(l) + 1
              THEN [matched |-> TRUE, hour |-> SubSeq(l, a, b - 1),
                    minute |-> IF hasMin THEN SubSeq(l, b + 1, b + 2) ELSE <<>>,
                    ampm |-> IF hasAmPm THEN l[d] ELSE Undefined]
              ELSE NoMatch
    ELSE NoMatch

\* getTorontoNow: the Toronto wall clock, to the second, read back as a local time
\* of the process; the process runs in a zone without clock changes.
getTorontoNow(t, offsetHours) ==
    LET shifted == NewDate(t.day - 1, t.ms + MsPerDay - offsetHours * 60 * 60 * 1000)
    IN [shifted EXCEPT !.ms = (shifted.ms \div 1000) * 1000]

\* The branch of parseDelay for "at ...": setHours(hour, minute, 0, 0) on a copy of
\* torontoNow, a day later if that is not after torontoNow, and the distance from
\* torontoNow added to now.
AtResult(m, t, offsetHours) ==
    LET h0 == parseInt(m.hour)
        minute == IF m.minute # <<>> THEN parseInt(m.minute) ELSE 0
        h1 == IF m.ampm = "pm" /\ h0 < 12 THEN h0 + 12 ELSE h0
        hour == IF m.ampm = "am" /\ h1 = 12 THEN 0 ELSE h1
        torontoNow == getTorontoNow(t, offsetHours)
        target0 == NewDate(torontoNow.day, hour * 60 * 60 * 1000 + minute * 60 * 1000)
        passed == \/ target0.day < torontoNow.day
                  \/ target0.day = torontoNow.day /\ target0.ms <= torontoNow.ms
        target == IF passed THEN NewDate(target0.day + 1, target0.ms) ELSE target0
    IN NewDate(t.day + (target.day - torontoNow.day) - 1,
               t.ms + MsPerDay + (target.ms - torontoNow.ms))

\* A parseDelay that takes a string matching neither pattern for "in 1 minute".
parseDelayOrDefault(delay, t, offsetHours) ==
    LET lower == trim(toLowerCase(delay))
        inMatch == InMatch(lower)
        atMatch == AtMatch(lower)
    IN IF inMatch.matched
         THEN DatePlus(t, parseInt(inMatch.amount), UnitMs(inMatch.unit))
         ELSE IF atMatch.matched
                THEN AtResult(atMatch, t, offsetHours)
                ELSE DatePlus(t, 1, 60 * 1000)

\* parseDelay(delay), called when `new Date()` is t.
parseDelay(delay, t, offsetHours) ==
    LET lower == trim(toLowerCase(delay))
        inMatch == InMatch(lower)
        atMatch == AtMatch(lower)
    IN IF inMatch.matched
         THEN DatePlus(t, parseInt(inMatch.amount), UnitMs(inMatch.unit))
         ELSE IF atMatch.matched
                THEN AtResult(atMatch, t, offsetHours)
                ELSE Null

\* A call of parseDelay.
ParseDelayCall ==
    /\ delayResult.kind = "pending"
    /\ delayResult' = parseDelay(delayInput.text, delayNow, delayOffset)
    /\ UNCHANGED <<delayNow, delayInput, delayOffset>>
    /\ UNCHANGED <<sessionVars, oauthVars, startupVars, cronVars, historyVars>>

\* --------------------------------------------------------- cron: the jobs file
\* Jobs the file holds at most, and requests the process holds at most.
MaxJobs == 2

MaxInFlight == 2

\* Instants of `new Date()` during the calls: noon UTC of 4 November 2026, and a
\* minute later.
CronInstants ==
    {[kind |-> "date", day |-> 20761, ms |-> m] : m \in {12 * 60 * 60 * 1000, 12 * 60 * 60 * 1000 + 60000}}

\* timeZone "America/Toronto" in 2026-27: four hours behind UTC until 06:00 UTC of
\* 1 November 2026 (day 20758), five hours from then until March 2027.
TorontoOffsetAt(t) ==
    IF t.day < 20758 \/ (t.day = 20758 /\ t.ms < 6 * 60 * 60 * 1000) THEN 4 ELSE 5

\* Values of randomUUID(), as <<first 8 characters, the rest>>: two UUIDs may agree
\* on their first 8 characters.
CronUuids == {<<"0a1b2c3d", "-e89b-12d3">>, <<"0a1b2c3d", "-a716-4466">>,
              <<"4e5f6a7b", "-e89b-12d3">>}

\* uuid.slice(0, 8)
slice(uuid) == uuid[1]

\* The jobs file before anything wrote it. `readable`: readFileSync and JSON.parse
\* succeed on it; `writable`: mkdirSync and writeFileSync succeed on its path.
AbsentFile == [exists |-> FALSE, readable |-> TRUE, writable |-> TRUE, jobs |-> <<>>]

\* A loadConfig that reads the file once, before any job was stored, and keeps that.
loadConfigCached(file) == <<>>

\* loadConfig: the jobs of the file; none when the file does not exist, and none
\* when reading or parsing it throws (the catch logs the error and falls through to
\* `return { jobs: [] }`).
loadConfig(file) == IF file.exists /\ file.readable THEN file.jobs ELSE <<>>

\* saveConfig: the file after a writeFileSync that succeeded.
saveConfig(jobs) == [exists |-> TRUE, readable |-> TRUE, writable |-> TRUE, jobs |-> jobs]

\* Date.prototype.toISOString, of a valid Date.
toISOString(d) == [kind |-> "iso", day |-> d.day, ms |-> d.ms]

\* A findIndex that takes the first job when none has the id.
findIndexOrFirst(jobs, id) ==
    IF \E i \in 1..Len(jobs) : jobs[i].id = id
    THEN CHOOSE i \in 1..Len(jobs) :
             jobs[i].id = id /\ \A j \in 1..(i - 1) : jobs[j].id # id
    ELSE IF Len(jobs) > 0 THEN 1 ELSE 0

\* jobs.findIndex((j) => j.id === id), and jobs.find: the position of the first job
\* with the id, counted from 1; 0 when there is none (-1 and undefined in the source).
findIndex(jobs, id) ==
    IF \E i \in 1..Len(jobs) : jobs[i].id = id
    THEN CHOOSE i \in 1..Len(jobs) :
             jobs[i].id = id /\ \A j \in 1..(i - 1) : jobs[j].id # id
    ELSE 0

\* jobs.splice(i, 1)
splice(jobs, i) == SubSeq(jobs, 1, i - 1) \o SubSeq(jobs, i + 1, Len(jobs))

\* An argument the caller supplied (`!== undefined`).
Supplied(args, field) == field \in DOMAIN args

\* `const { field = dflt } = args`
OrDefault(args, field, dflt) == IF Supplied(args, field) THEN args[field] ELSE dflt

\* A request the process holds: the call, and whether the handler of another
\* request saved the file since this one arrived.
InFlight(req) == [req |-> req, overtaken |-> FALSE]

\* What the handler returns for request e, with what it loaded and whether it saved.
\* `thrown` marks an exception leaving the handler (a protocol-level error);
\* `shown` are the jobs whose fields the text reports.
ToolResult(e, didLoad, saved, isError, text, id, shown, runAt) ==
    [name |-> e.req.name, args |-> e.req.args, thrown |-> FALSE,
     isError |-> isError, text |-> text, id |-> id, shown |-> shown, runAt |-> runAt,
     didLoad |-> didLoad, loaded |-> IF didLoad THEN loadConfig(cronFile) ELSE <<>>,
     saved |-> saved, fileBefore |-> cronFile, overtaken |-> e.overtaken]

NotFoundResult(e) ==
    ToolResult(e, TRUE, FALSE, TRUE, "Job not found", Undefined, <<>>, Null)

\* `saveConfig(configFile, config); return {...}` in a handler: the file is written
\* and the handler returns result; or mkdirSync or writeFileSync throws, nothing in
\* the handler catches it, and the file is as it was.
SaveAndReturn(e, jobs, result) ==
    IF cronFile.writable
    THEN /\ cronFile' = saveConfig(jobs)
         /\ cronLast' = result
    ELSE /\ cronLast' = [ToolResult(e, TRUE, FALSE, FALSE, "EACCES", Undefined, <<>>, Null)
                            EXCEPT !.thrown = TRUE]
         /\ UNCHANGED cronFile

\* list_jobs
list_jobs(e) ==
    /\ e.req.name = "list_jobs"
    /\ LET config == loadConfig(cronFile)
           jobs == IF OrDefault(e.req.args, "include_disabled", TRUE)
                   THEN config
                   ELSE SelectSeq(config, LAMBDA j : j.enabled)
       IN cronLast' = ToolResult(e, TRUE, FALSE, FALSE,
                                 IF Len(jobs) = 0 THEN "No scheduled jobs found."
                                                  ELSE "Scheduled Jobs",
                                 Undefined, jobs, Null)
    /\ UNCHANGED <<cronFile, cronNow>>

\* create_job
create_job(e) ==
    /\ e.req.name = "create_job"
    /\ Len(loadConfig(cronFile)) < MaxJobs
    /\ \E uuid \in CronUuids :
         LET config == loadConfig(cronFile)
             stamp == toISOString(cronNow)
             newJob == [id |-> slice(uuid),
                        enabled |-> OrDefault(e.req.args, "enabled", TRUE),
                        schedule |-> e.req.args.schedule,
                        description |-> e.req.args.description,
                        prompt |-> e.req.args.prompt,
                        created_at |-> stamp, updated_at |-> stamp]
         IN SaveAndReturn(e, Append(config, newJob),
                          ToolResult(e, TRUE, TRUE, FALSE, "Created job",
                                     newJob.id, <<newJob>>, Null))
    /\ UNCHANGED cronNow

\* An edit_job that writes the job back without its run_at.
EditedDroppingRunAt(job, args, stamp) ==
    [f \in DOMAIN job \ {"run_at"} |->
        IF f = "updated_at" THEN stamp
        ELSE IF f \in {"schedule", "description", "prompt", "enabled"} /\ Supplied(args, f)
             THEN args[f]
             ELSE job[f]]

\* An edit_job that assigns all four fields, supplied or not.
EditedUnconditionally(job, args, stamp) ==
    [f \in DOMAIN job |->
        IF f = "updated_at" THEN stamp
        ELSE IF f \in {"schedule", "description", "prompt", "enabled"}
             THEN OrDefault(args, f, Undefined)
             ELSE job[f]]

\* The job after edit_job's assignments.
Edited(job, args, stamp) ==
    [f \in DOMAIN job |->
        IF f = "updated_at" THEN stamp
        ELSE IF f \in {"schedule", "description", "prompt", "enabled"} /\ Supplied(args, f)
             THEN args[f]
             ELSE job[f]]

\* edit_job
edit_job(e) ==
    /\ e.req.name = "edit_job"
    /\ LET config == loadConfig(cronFile)
           jobIndex == findIndex(config, e.req.args.id)
       IN IF jobIndex = 0
          THEN /\ cronLast' = NotFoundResult(e)
               /\ UNCHANGED cronFile
          ELSE LET job == Edited(config[jobIndex], e.req.args, toISOString(cronNow))
               IN SaveAndReturn(e, [config EXCEPT ![jobIndex] = job],
                                ToolResult(e, TRUE, TRUE, FALSE, "Updated job",
                                           e.req.args.id, <<job>>, Null))
    /\ UNCHANGED cronNow

\* delete_job
delete_job(e) ==
    /\ e.req.name = "delete_job"
    /\ LET config == loadConfig(cronFile)
           jobIndex == findIndex(config, e.req.args.id)
       IN IF jobIndex = 0
          THEN /\ cronLast' = NotFoundResult(e)
               /\ UNCHANGED cronFile
          ELSE SaveAndReturn(e, splice(config, jobIndex),
                             ToolResult(e, TRUE, TRUE, FALSE, "Deleted job",
                                        e.req.args.id, <<config[jobIndex]>>, Null))
    /\ UNCHANGED cronNow

\* toggle_job
toggle_job(e) ==
    /\ e.req.name = "toggle_job"
    /\ LET config == loadConfig(cronFile)
           jobIndex == findIndex(config, e.req.args.id)
       IN IF jobIndex = 0
          THEN /\ cronLast' = NotFoundResult(e)
               /\ UNCHANGED cronFile
          ELSE LET job == [config[jobIndex] EXCEPT !.enabled = e.req.args.enabled,
                                                   !.updated_at = toISOString(cronNow)]
               IN SaveAndReturn(e, [config EXCEPT ![jobIndex] = job],
                                ToolResult(e, TRUE, TRUE, FALSE, "Job is now",
                                           e.req.args.id, <<job>>, Null))
    /\ UNCHANGED cronNow

\* get_job
get_job(e) ==
    /\ e.req.name = "get_job"
    /\ LET config == loadConfig(cronFile)
           jobIndex == findIndex(config, e.req.args.id)
       IN cronLast' = IF jobIndex = 0
                      THEN NotFoundResult(e)
                      ELSE ToolResult(e, TRUE, FALSE, FALSE, "Job",
                                      config[jobIndex].id, <<config[jobIndex]>>, Null)
    /\ UNCHANGED <<cronFile, cronNow>>

\* schedule_once: parseDelay, then the new job; toISOString throws RangeError on an
\* Invalid Date, before the job is pushed.
schedule_once(e) ==
    /\ e.req.name = "schedule_once"
    /\ LET runAt == parseDelay(e.req.args.delay.text, cronNow, TorontoOffsetAt(cronNow))
       IN CASE runAt.kind = "null" ->
                 /\ cronLast' = ToolResult(e, FALSE, FALSE, TRUE, "Could not parse delay",
                                           Undefined, <<>>, runAt)
                 /\ UNCHANGED cronFile
            [] runAt.kind = "invalid" ->
                 /\ cronLast' = [ToolResult(e, TRUE, FALSE, FALSE, "RangeError",
                                            Undefined, <<>>, runAt) EXCEPT !.thrown = TRUE]
                 /\ UNCHANGED cronFile
            [] OTHER ->
                 /\ Len(loadConfig(cronFile)) < MaxJobs
                 /\ \E uuid \in CronUuids :
                      LET config == loadConfig(cronFile)
                          stamp == toISOString(cronNow)
                          newJob == [id |-> slice(uuid), enabled |-> TRUE,
                                     schedule |-> "once at <time> ET",
                                     description |-> e.req.args.description,
                                     prompt |-> e.req.args.prompt,
                                     created_at |-> stamp, updated_at |-> stamp,
                                     run_once |-> TRUE, run_at |-> toISOString(runAt)]
                      IN SaveAndReturn(e, Append(config, newJob),
                                       ToolResult(e, TRUE, TRUE, FALSE,
                                                  "Scheduled one-off task",
                                                  newJob.id, <<newJob>>, runAt))
    /\ UNCHANGED cronNow

ToolNames == {"list_jobs", "create_job", "edit_job", "delete_job", "toggle_job",
              "get_job", "schedule_once"}

\* The fall-through of the CallTool handler.
unknown_tool(e) ==
    /\ e.req.name \notin ToolNames
    /\ cronLast' = ToolResult(e, FALSE, FALSE, TRUE, "Unknown tool", Undefined, <<>>, Null)
    /\ UNCHANGED <<cronFile, cronNow>>

\* The CallTool handler, run on request e from its first statement to its return:
\* no handler awaits anything between loadConfig and saveConfig.
CallTool(e) ==
    \/ list_jobs(e)
    \/ create_job(e)
    \/ edit_job(e)
    \/ delete_job(e)
    \/ toggle_job(e)
    \/ get_job(e)
    \/ schedule_once(e)
    \/ unknown_tool(e)

\* A tool call with no other request in the process (stdio, or one HTTP client at a time).
DirectCall(req) ==
    /\ cronInFlight = <<>>
    /\ CallTool(InFlight(req))
    /\ UNCHANGED cronInFlight
    /\ UNCHANGED <<sessionVars, oauthVars, startupVars, delayVars, historyVars>>

\* HTTP mode: a POST carrying a tool call arrives while others are still unanswered.
ReceiveCall(req) ==
    /\ Len(cronInFlight) < MaxInFlight
    /\ cronInFlight' = Append(cronInFlight, InFlight(req))
    /\ UNCHANGED <<cronFile, cronNow, cronLast>>
    /\ UNCHANGED <<sessionVars, oauthVars, startupVars, delayVars, historyVars>>

\* HTTP mode: the event loop runs the handler of one of the requests it holds; the
\* others are marked when this one saved the file.
HandleCall(i) ==
    /\ i \in 1..Len(cronInFlight)
    /\ CallTool(cronInFlight[i])
    /\ LET rest == splice(cronInFlight, i)
       IN cronInFlight' = IF cronLast'.saved
                          THEN [k \in 1..Len(rest) |-> [rest[k] EXCEPT !.overtaken = TRUE]]
                          ELSE rest
    /\ UNCHANGED <<sessionVars, oauthVars, startupVars, delayVars, historyVars>>

\* The clock moves on.
CronTick ==
    /\ \E t \in CronInstants :
         /\ \/ t.day > cronNow.day
            \/ t.day = cronNow.day /\ t.ms > cronNow.ms
         /\ cronNow' = t
    /\ UNCHANGED <<cronFile, cronInFlight, cronLast>>
    /\ UNCHANGED <<sessionVars, oauthVars, startupVars, delayVars, historyVars>>

\* The file stops or starts being readable: its permissions change, or another
\* program leaves contents that JSON.parse refuses or repairs them.
ReadFault ==
    /\ cronFile.exists
    /\ cronFile' = [cronFile EXCEPT !.readable = ~cronFile.readable]
    /\ UNCHANGED <<cronNow, cronInFlight, cronLast>>
    /\ UNCHANGED <<sessionVars, oauthVars, startupVars, delayVars, historyVars>>

\* The path stops or starts being writable (permissions, a read-only or full volume).
WriteFault ==
    /\ cronFile' = [cronFile EXCEPT !.writable = ~cronFile.writable]
    /\ UNCHANGED <<cronNow, cronInFlight, cronLast>>
    /\ UNCHANGED <<sessionVars, oauthVars, startupVars, delayVars, historyVars>>

\* ------------------------------------------- telegram, discord: conversation history
\* Messages one history file holds at most.
MaxHistory == 11

\* Channel ids (chat ids of telegram).
ChannelIds == {"c1", "c2"}

\* loadHistory: the messages of the channel's file, none when there is no file.
loadHistory(files, channelId) ==
    IF channelId \in DOMAIN files THEN files[channelId] ELSE <<>>

\* Array.prototype.slice(start): from max(length + start, 0) when start is negative,
\* from min(start, length) otherwise, to the end (-0 is 0).
ArraySlice(a, start) ==
    LET k == IF start < 0
             THEN (IF Len(a) + start > 0 THEN Len(a) + start ELSE 0)
             ELSE (IF start < Len(a) THEN start ELSE Len(a))
    IN SubSeq(a, k + 1, Len(a))

\* getRecentMessages: history.slice(-n)
getRecentMessages(files, channelId, n) ==
    ArraySlice(loadHistory(files, channelId), -n)

\* saveMessage: the message is pushed on the loaded history and the file rewritten.
saveMessage(channelId, message) ==
    /\ Len(loadHistory(histories, channelId)) < MaxHistory
    /\ histories' = [c \in DOMAIN histories \cup {channelId} |->
                        IF c = channelId
                        THEN Append(loadHistory(histories, channelId), message)
                        ELSE histories[c]]
    /\ historyLast' = [name |-> "saveMessage", args |-> [channel_id |-> channelId],
                       messages |-> <<>>, text |-> Undefined, filesBefore |-> histories]
    /\ UNCHANGED <<sessionVars, oauthVars, startupVars, delayVars, cronVars>>

\* The get_history tool: `const { channel_id, n = 10 } = args`.
get_history(args) ==
    /\ LET messages == getRecentMessages(histories, args.channel_id, OrDefault(args, "n", 10))
       IN historyLast' = [name |-> "get_history", args |-> args, messages |-> messages,
                          text |-> IF Len(messages) = 0
                                   THEN "No conversation history found"
                                   ELSE "JSON.stringify(messages)",
                          filesBefore |-> histories]
    /\ UNCHANGED histories
    /\ UNCHANGED <<sessionVars, oauthVars, startupVars, delayVars, cronVars>>

\* ------------------------------------------------ parts a specification leaves idle
EmptyMap == [c \in {} |-> Undefined]

NoOAuthResponse ==
    [op |-> "none", grant_type |-> Undefined, code |-> Undefined, redirect_uri |-> Undefined,
     code_verifier |-> Undefined, status |-> 0, error |-> Undefined,
     description |-> Undefined, access_token |-> Undefined,
     liveBefore |-> FALSE, at |-> 0, exchangedBefore |-> 0,
     query |-> [response_type |-> Undefined, code_challenge |-> Undefined,
                code_challenge_method |-> Undefined, state |-> Undefined],
     location |-> [uri |-> Undefined, code |-> Undefined, state |-> Undefined],
     codesBefore |-> {}]

InitOAuth ==
    /\ authCodes = EmptyMap
    /\ now = 0
    /\ codeLog = EmptyMap
    /\ oauthLast = NoOAuthResponse

\* main() has run to its end: every candidate was ready and is mounted.
StartupOver ==
    /\ configs = <<>>
    /\ mainPc = "ready"
    /\ loopIdx = 1
    /\ loadedServers = <<>>
    /\ skippedServers = <<>>
    /\ env = [k \in {} |-> Undefined]

DelayIdle ==
    /\ delayNow = [kind |-> "date", day |-> 0, ms |-> 0]
    /\ delayInput = [text |-> <<>>, kind |-> "other", digits |-> <<>>, unit |-> Undefined]
    /\ delayOffset = 5
    /\ delayResult = [kind |-> "pending", day |-> 0, ms |-> 0]

\* No tool call yet.
NoToolResult ==
    [name |-> "none", args |-> EmptyMap, thrown |-> FALSE, isError |-> FALSE,
     text |-> Undefined, id |-> Undefined, shown |-> <<>>, runAt |-> Null,
     didLoad |-> FALSE, loaded |-> <<>>, saved |-> FALSE, fileBefore |-> AbsentFile,
     overtaken |-> FALSE]

NoHistoryCall ==
    [name |-> "none", args |-> EmptyMap, messages |-> <<>>, text |-> Undefined,
     filesBefore |-> EmptyMap]

HistoryIdle ==
    /\ histories = EmptyMap
    /\ historyLast = NoHistoryCall

CronIdle ==
    /\ cronFile = AbsentFile
    /\ cronNow = [kind |-> "date", day |-> 0, ms |-> 0]
    /\ cronInFlight = <<>>
    /\ cronLast = NoToolResult

\* ------------------------------------------------------------ Spec: sessions
\* A server after start-up, under requests, close events and close().
Init ==
    /\ \/ InitSessions("gateway", GatewayMounts)
       \/ InitSessions("standalone", {StandaloneMount})
    /\ InitOAuth
    /\ StartupOver
    /\ DelayIdle
    /\ CronIdle
    /\ HistoryIdle

Next ==
    \/ Requests
    \/ Continuations
    \/ Shutdown

vars == <<sessionVars, oauthVars, startupVars, delayVars, cronVars, historyVars>>

Spec == Init /\ [][Next]_vars

\* ------------------------------------------------------ claims on sessions
\* The latest step answered a request that reached a route handler of {base}/mcp.
Handled(op) == last.op = op /\ AuthPasses(last.tok) /\ last.status # 404

\* The transports whose session id is sid.
TransportsOf(sid) == {t \in 1..Len(transports) : transports[t].sessionId = sid}

C2_SessionLifecycle ==
    /\ (Handled("POST") /\ Truthy(last.hdr) /\ Has(last.regBefore, last.hdr))
          => (last.fwd # NoTransport /\ transports[last.fwd].sessionId = last.hdr)
    /\ \A t \in 1..Len(transports) :
          (transports[t].closed /\ Truthy(transports[t].sessionId))
             => ~Has(allTransports, transports[t].sessionId)
    /\ (/\ Handled("POST") \/ Handled("GET") \/ Handled("DELETE")
        /\ Truthy(last.hdr)
        /\ TransportsOf(last.hdr) # {}
        /\ TransportsOf(last.hdr) \subseteq last.closedBefore)
          => (last.status = 400 /\ last.fwd = NoTransport)
    /\ ((last.op = "DELETE" /\ last.status = 200) \/ last.op = "close")
          => allTransports = RegDelete(last.regBefore, transports[last.fwd].sessionId)

\* A request bearing the id of a session closed earlier has just been rejected while
\* another session remains registered.
C2_Witness ==
    /\ last.op \in {"POST", "GET", "DELETE"}
    /\ Truthy(last.hdr)
    /\ TransportsOf(last.hdr) # {}
    /\ TransportsOf(last.hdr) \subseteq last.closedBefore
    /\ last.status = 400
    /\ Len(allTransports) > 0

\* C3. In the Gateway a request that arrives at {P}/mcp is never forwarded to a
\* transport created through another mount {Q}/mcp: it is answered 400.
C3_NoSharingAcrossMounts ==
    (/\ mode = "gateway"
     /\ last.op \in {"POST", "GET", "DELETE"}
     /\ last.fwd # NoTransport)
       => transports[last.fwd].serverName = last.mount

\* C7. With MCP_AUTH_CLIENT_SECRET configured, a POST, GET or DELETE to a {base}/mcp
\* route whose bearer token is absent or is not the secret is answered by the
\* middleware (401 or 500): it reaches no transport, creates none, and leaves the
\* registry as it was.
C7_AuthBeforeHandler ==
    (/\ authEnabled
     /\ last.op \in {"POST", "GET", "DELETE"}
     /\ last.tok # ClientSecret)
       => (/\ last.status \in {401, 500}
           /\ last.fwd = NoTransport
           /\ last.sid = Undefined
           /\ allTransports = last.regBefore
           /\ Len(transports) = last.transportsBefore)

\* A request with a wrong token has been rejected while a session is registered.
C7_Witness ==
    /\ authEnabled
    /\ last.op \in {"POST", "GET", "DELETE"}
    /\ last.tok = "wrong"
    /\ last.status = 500
    /\ Len(allTransports) > 0

\* C9. When close() has resolved the registry is empty, whether or not a close()
\* of a transport threw and whether or not an initialize request was in flight
\* during the sweep; and the listener stops listening only after the sweep.
C9_CloseLeavesRegistryEmpty ==
    /\ closePc = "resolved" => allTransports = <<>>
    /\ listener # "listening" => closePc \in {"listener", "resolved"}

\* C17. An exception raised while a session's transport handles a POST, GET or
\* DELETE on {base}/mcp is answered 500 with the JSON-RPC error -32603; nothing
\* escapes the handler, and the registry keeps the session's entry.
C17_ExceptionsBecome500 ==
    last.threw
       => (/\ last.status = 500
           /\ last.code = -32603
           /\ ~last.escaped
           /\ allTransports = last.regBefore)

\* C18. A POST, GET or DELETE on {base}/mcp that is rejected because its session
\* id is missing or unknown is answered 400 with a JSON-RPC error body.
C18_RejectedIs400JsonRpc ==
    (/\ \E op \in {"POST", "GET", "DELETE"} : Handled(op)
     /\ ~Has(last.regBefore, last.hdr)
     /\ ~(last.op = "POST" /\ ~Truthy(last.hdr) /\ isInitializeRequest(last.body)))
       => (last.status = 400 /\ last.code # 0)

\* C24. Sessions on one Server object are independent: the response to a POST that
\* a session's transport handled is sent on that same transport, also when another
\* session was initialized or closed on the same Server since the session began.
C24_ResponseOnOwnStream ==
    (/\ last.op = "POST"
     /\ Has(last.regBefore, last.hdr)
     /\ last.fwd # NoTransport
     /\ last.status = 200)
       => last.sentOn = last.fwd

\* -------------------------------------------------------- SpecOAuth: AuthGate
ResponseTypes == {"code", "token"}

ClientIds == {"other-client"}

\* authConfig.clientId when MCP_AUTH_CLIENT_ID is not set.
ConfiguredClientId == "mcp-client"

\* redirect_uri of an authorize request: none, or the client's callback.
RegisteredRedirects == {Undefined, "https://a/cb"}

\* redirect_uri of an authorize request that carries a state: the callback, or a
\* string that is no absolute URL.
UnregisteredRedirects == {"https://a/cb", "cb"}

\* redirect_uri of a token request: none, the callback, or another URI.
RedirectUris == {Undefined, "https://a/cb", "https://b/cb"}

Challenges == {Undefined, "h1", "v1"}

Methods == {Undefined, "S256", "plain", "S512"}

Verifiers == {Undefined, "v1", "v2"}

\* Codes a client may present: one never issued, and those issued so far.
PresentedCodes == {BogusId} \cup DOMAIN codeLog

InitAuthGate ==
    /\ \/ InitSessions("gateway", GatewayMounts)
       \/ InitSessions("standalone", {StandaloneMount})
    /\ authEnabled = TRUE
    /\ InitOAuth
    /\ StartupOver
    /\ DelayIdle
    /\ CronIdle
    /\ HistoryIdle

NextAuthGate ==
    \/ \E t \in ClockValues : Tick(t)
    \/ \E rt \in ResponseTypes, cid \in ClientIds, ru \in RegisteredRedirects,
          cc \in Challenges :
          AuthorizeRejected(rt, cid, ru, cc, Undefined)
    \/ \E cid \in ClientIds, ru \in RegisteredRedirects, cc \in Challenges, me \in Methods :
          Authorize("code", cid, ru, cc, me, Undefined)
    \/ \E cid \in ClientIds, ru \in UnregisteredRedirects :
          Authorize("code", cid, ru, "h1", Undefined, "xyz")
    \/ \E code \in PresentedCodes :
          TokenRejected("refresh_token", code, Undefined, Undefined)
    \/ \E code \in PresentedCodes, ru \in RedirectUris, cv \in Verifiers :
          \/ TokenRejected("authorization_code", code, ru, cv)
          \/ TokenIssued("authorization_code", code, ru, cv)

SpecOAuth == InitAuthGate /\ [][NextAuthGate]_vars

\* --------------------------------------------------------- claims on OAuth
\* The latest step answered a token request that presents, under the
\* authorization_code grant, a code that /oauth/authorize issued.
Presented == /\ oauthLast.op = "token"
             /\ oauthLast.grant_type = "authorization_code"
             /\ oauthLast.code \in DOMAIN codeLog

Refused(description) ==
    /\ oauthLast.status = 400
    /\ oauthLast.error = "invalid_grant"
    /\ oauthLast.description = description
    /\ oauthLast.access_token = Undefined

TokenGranted == oauthLast.op = "token" /\ oauthLast.access_token # Undefined

\* What authorize stored with the code the latest request presents.
StoredWithCode == codeLog[oauthLast.code].stored

\* C4. Every code issued by /oauth/authorize is exchanged for an access_token at
\* most once, and a request that presents it after the exchange is answered 400
\* invalid_grant "Invalid or expired code".
C4_ExchangedAtMostOnce ==
    /\ \A c \in DOMAIN codeLog : codeLog[c].exchanges <= 1
    /\ (Presented /\ oauthLast.exchangedBefore >= 1)
          => Refused("Invalid or expired code")

\* The code was exchanged, and a second request with the same correct parameters
\* has been refused.
C4_Witness ==
    /\ Presented
    /\ oauthLast.exchangedBefore = 1
    /\ oauthLast.status = 400
    /\ oauthLast.code_verifier = "v1"
    /\ StoredWithCode.codeChallenge = "h1"

\* C5. A code issued at t0 is stored with expiresAt = t0 + 600000 ms; a request that
\* presents it while it is stored and after that instant is answered 400
\* invalid_grant "Code expired" and deletes it; no token is ever issued for a code
\* after its expiry.
C5_ExpiredCodeRefused ==
    /\ \A c \in DOMAIN authCodes :
          authCodes[c].expiresAt = codeLog[c].issuedAt + 600000
    /\ (Presented /\ oauthLast.liveBefore
           /\ oauthLast.at > codeLog[oauthLast.code].issuedAt + 600000)
          => (Refused("Code expired") /\ oauthLast.code \notin DOMAIN authCodes)
    /\ \A c \in DOMAIN codeLog : codeLog[c].expired => c \notin DOMAIN authCodes
    /\ TokenGranted
          => /\ ~codeLog[oauthLast.code].expired
             /\ oauthLast.at <= codeLog[oauthLast.code].issuedAt + 600000

\* An expired code has been refused although the request carried the stored
\* redirect_uri and the verifier of the stored S256 challenge.
C5_Witness ==
    /\ Presented
    /\ oauthLast.description = "Code expired"
    /\ oauthLast.redirect_uri = StoredWithCode.redirectUri
    /\ oauthLast.code_verifier = "v1"
    /\ StoredWithCode.codeChallenge = "h1"
    /\ StoredWithCode.codeChallengeMethod = "S256"

\* The challenge recomputed from the verifier under the stored method equals the
\* stored challenge: S256 compares the digest, plain the verifier, nothing else passes.
ChallengeRecomputed(verifier, stored) ==
    \/ stored.codeChallengeMethod = "S256"
          /\ sha256base64url(verifier) = stored.codeChallenge
    \/ stored.codeChallengeMethod = "plain" /\ verifier = stored.codeChallenge

\* C6. A token request that supplies a redirect_uri other than the one stored with
\* the code, or no code_verifier, or a code_verifier whose recomputed challenge is
\* not the stored one, is answered 400 invalid_grant and gets no access_token.
C6_MismatchRefused ==
    (/\ Presented
     /\ \/ Truthy(oauthLast.redirect_uri)
           /\ oauthLast.redirect_uri # StoredWithCode.redirectUri
        \/ ~Truthy(oauthLast.code_verifier)
        \/ ~ChallengeRecomputed(oauthLast.code_verifier, StoredWithCode))
       => (/\ oauthLast.status = 400
           /\ oauthLast.error = "invalid_grant"
           /\ oauthLast.access_token = Undefined)

\* A live, unexpired code presented with the stored redirect_uri and the wrong
\* verifier has been refused.
C6_Witness ==
    /\ Presented
    /\ oauthLast.liveBefore
    /\ oauthLast.redirect_uri = StoredWithCode.redirectUri
    /\ oauthLast.code_verifier = "v2"
    /\ StoredWithCode.codeChallenge = "h1"
    /\ oauthLast.description = "PKCE verification failed"

\* The latest token request presented a stored code and was rejected for its
\* grant_type, redirect_uri or code_verifier.
FailedAttempt ==
    /\ oauthLast.op = "token"
    /\ oauthLast.liveBefore
    /\ oauthLast.status = 400
    /\ \/ oauthLast.error = "unsupported_grant_type"
       \/ oauthLast.description \in {"Redirect URI mismatch", "Missing code_verifier",
                                     "PKCE verification failed"}

\* C26. A failed /oauth/token attempt does not invalidate an unexpired code: after a
\* rejection for unsupported grant_type, redirect URI mismatch, missing
\* code_verifier or PKCE failure the code is in the store with the fields authorize
\* stored, and before its expiry a request with the stored redirect_uri and a
\* verifier of the stored challenge passes every check; a code leaves the store
\* only by a successful exchange or when presented after expiry.
C26_FailedAttemptKeepsCode ==
    /\ FailedAttempt
          => (/\ oauthLast.code \in DOMAIN authCodes
              /\ authCodes[oauthLast.code] = StoredWithCode
              /\ DOMAIN authCodes = oauthLast.codesBefore
              /\ \A cv \in Verifiers :
                    (/\ Truthy(cv)
                     /\ ChallengeRecomputed(cv, StoredWithCode)
                     /\ now <= StoredWithCode.expiresAt)
                       => (TokenError("authorization_code", oauthLast.code,
                                      StoredWithCode.redirectUri, cv) = "none"))
    /\ \A c \in DOMAIN codeLog :
          (c \notin DOMAIN authCodes)
             => (codeLog[c].exchanges >= 1 \/ codeLog[c].expired)

\* A live code was presented before its expiry with the stored redirect_uri and a
\* wrong verifier, and the right verifier would still be accepted.
C26_Witness ==
    /\ FailedAttempt
    /\ oauthLast.description = "PKCE verification failed"
    /\ oauthLast.code_verifier = "v2"
    /\ StoredWithCode.codeChallenge = "h1"
    /\ StoredWithCode.codeChallengeMethod = "S256"
    /\ now <= StoredWithCode.expiresAt
    /\ TokenError("authorization_code", oauthLast.code, StoredWithCode.redirectUri, "v1")
          = "none"

\* C27. The redirect URI comparison at the token endpoint is applied only when the
\* request supplies a redirect_uri: a request that omits it and presents a live
\* (stored, unexpired) code with a verifier that passes PKCE receives the
\* access_token, whatever redirect_uri was stored with the code.
C27_RedirectCheckedOnlyWhenSupplied ==
    /\ (oauthLast.op = "token" /\ oauthLast.description = "Redirect URI mismatch")
          => Truthy(oauthLast.redirect_uri)
    /\ (/\ Presented
        /\ oauthLast.liveBefore
        /\ oauthLast.at <= StoredWithCode.expiresAt
        /\ ~Truthy(oauthLast.redirect_uri)
        /\ Truthy(oauthLast.code_verifier)
        /\ ChallengeRecomputed(oauthLast.code_verifier, StoredWithCode))
          => (/\ oauthLast.status = 200
              /\ oauthLast.access_token = ClientSecret
              /\ Truthy(StoredWithCode.redirectUri))

\* A token was issued to a request without redirect_uri for a code stored with one.
C27_Witness ==
    /\ TokenGranted
    /\ oauthLast.redirect_uri = Undefined
    /\ StoredWithCode.redirectUri = "https://a/cb"
    /\ oauthLast.code_verifier = "v1"

\* C28. With AuthGate enabled a caller obtains the configured shared secret only if
\* it already knows it: the flow authorize, then token with the matching verifier,
\* does not return the secret as access_token to a caller that presented no
\* credential (no bearer token, and a client_id other than the configured one).
C28_SecretOnlyToHolders ==
    (TokenGranted /\ oauthLast.access_token = ClientSecret)
       => (StoredWithCode.clientId = ConfiguredClientId)

\* C16. GET /oauth/authorize answers 400 "invalid_request" and stores no code when
\* response_type is not "code" or redirect_uri or code_challenge is missing;
\* otherwise it stores exactly one fresh code, with codeChallengeMethod defaulting to
\* "S256", and redirects to redirect_uri with that code, echoing state only when
\* state was supplied.
C16_AuthorizeContract ==
    (oauthLast.op = "authorize")
       => IF \/ oauthLast.query.response_type # "code"
             \/ oauthLast.redirect_uri = Undefined
             \/ oauthLast.query.code_challenge = Undefined
          THEN /\ oauthLast.status = 400
               /\ oauthLast.error = "invalid_request"
               /\ DOMAIN authCodes = oauthLast.codesBefore
          ELSE /\ oauthLast.code \notin oauthLast.codesBefore
               /\ DOMAIN authCodes = oauthLast.codesBefore \cup {oauthLast.code}
               /\ authCodes[oauthLast.code].codeChallengeMethod =
                     (IF oauthLast.query.code_challenge_method = Undefined
                        THEN "S256" ELSE oauthLast.query.code_challenge_method)
               /\ oauthLast.status = 302
               /\ oauthLast.location =
                     [uri |-> oauthLast.redirect_uri, code |-> oauthLast.code,
                      state |-> oauthLast.query.state]

\* ---------------------------------------------------- SpecStartup: main()
RequiredEnvs == {<<>>, <<"K1">>, <<"K1", "K2">>}

CandidateConfigs(i) ==
    [name : {CandidateNames[i]}, requiredEnv : RequiredEnvs,
     checkFn : {"none", "ok", "missing"}, createOk : BOOLEAN]

\* createGatewayServer has returned (the listener is up, nothing is mounted) and
\* main() is about to enter its loop.
InitStartup ==
    /\ InitSessions("gateway", {})
    /\ authEnabled = FALSE
    /\ InitOAuth
    /\ DelayIdle
    /\ CronIdle
    /\ HistoryIdle
    /\ configs \in {c \in [1..NumCandidates -> UNION {CandidateConfigs(i) : i \in 1..NumCandidates}] :
                       \A i \in 1..NumCandidates : c[i].name = CandidateNames[i]}
    /\ env \in {e \in [EnvKeys -> {Undefined, "", "token"}] : e["K2"] # ""}
    /\ mainPc = "loop"
    /\ loopIdx = 1
    /\ loadedServers = <<>>
    /\ skippedServers = <<>>

\* The listener is bound before the loop starts (createGatewayServer calls
\* app.listen); a request is handled when main() is suspended at
\* `await cfg.create()` or has returned, never inside a synchronous stretch of the loop.
EventLoopFree == mainPc # "loop"

NextStartup ==
    \/ SkipMissingEnv
    \/ SkipFailedCheck
    \/ CreateCalled
    \/ CreateResolved
    \/ CreateRejected
    \/ LoopDone
    \/ EventLoopFree /\ Health
    \/ \E i \in 1..NumCandidates, op \in {"POST", "GET", "DELETE"} :
          EventLoopFree /\ NotFound(CandidateNames[i], op)
    \/ \E i \in 1..NumCandidates, hdr \in HeaderValues, body \in Bodies :
          EventLoopFree /\ PostRejected(CandidateNames[i], hdr, body, Undefined)

SpecStartup == InitStartup /\ [][NextStartup]_vars

\* ------------------------------------------------------- claims on start-up
\* A candidate is ready: each key of requiredEnv has a non-empty value, the custom
\* check (if it has one) does not report a miss, and create() does not throw.
Ready(cfg) ==
    /\ \A i \in 1..Len(cfg.requiredEnv) : env[cfg.requiredEnv[i]] \notin {Undefined, ""}
    /\ cfg.checkFn # "missing"
    /\ cfg.createOk

\* C8. A candidate the loop has passed is mounted if and only if it is ready, and no
\* candidate is mounted before the loop reaches it; the loop ends only after the last
\* candidate, whatever happened to the earlier ones; /health answers status "ok"
\* with the number of sessions throughout.
C8_MountedIffReady ==
    /\ \A i \in 1..Len(configs) :
          configs[i].name \in mounted <=> (i < loopIdx /\ Ready(configs[i]))
    /\ \A i \in 1..Len(loadedServers) : loadedServers[i] \in mounted
    /\ mainPc \in {"loop", "creating", "ready"}
    /\ mainPc = "ready" => loopIdx = Len(configs) + 1
    /\ listener = "listening"
    /\ last.op = "GET /health"
          => (last.status = 200 /\ last.health.status = "ok"
              /\ last.health.sessions = Len(last.regBefore))

\* The first candidate's create() threw, the second candidate is mounted, and
\* /health has answered after the loop.
C8_Witness ==
    /\ mainPc = "ready"
    /\ checkEnvVars(configs[1].requiredEnv)
    /\ ~configs[1].createOk
    /\ configs[1].name \notin mounted
    /\ configs[2].name \in mounted
    /\ last.op = "GET /health"

\* C19. No request is answered before the start-up loop has passed every candidate:
\* when a request is answered, every ready candidate is mounted.
C19_StartupBeforeTraffic ==
    (last.op \in {"GET /health", "POST", "GET", "DELETE"})
       => (/\ loopIdx > Len(configs)
           /\ \A i \in 1..Len(configs) : Ready(configs[i]) => (configs[i].name \in mounted))

\* ------------------------------------------------------ SpecDelay: parseDelay
\* Amounts: zero, small ones, one with a leading zero, and the two around the end of
\* the range of Date for a call in November 2026 (day 20761 of the epoch).
DigitStrings ==
    {<<"0">>, <<"5">>, <<"0", "7">>, <<"9", "0">>,
     <<"9", "9", "9", "7", "9", "2", "3", "9">>,
     <<"1", "0", "0", "0", "0", "0", "0", "0", "0">>}

\* The phrases "in <N> <unit>[s]", in either case and with or without blanks around.
InPhrases ==
    {[text |-> pad \o <<w>> \o gap \o ds \o <<" ">> \o <<u>> \o plural \o pad,
      kind |-> "in", digits |-> ds, unit |-> u] :
        pad \in {<<>>, <<" ">>}, w \in {"in", "IN"}, gap \in {<<" ">>, <<" ", "\t">>},
        ds \in DigitStrings, u \in UnitWords, plural \in {<<>>, <<"s">>}}

Phrase(text, kind) == [text |-> text, kind |-> kind, digits |-> <<>>, unit |-> Undefined]

\* An "at" phrase, with the hour, the minute and the am/pm mark its text denotes.
AtPhrase(text, hour, minute, ampm) ==
    [text |-> text, kind |-> "at", digits |-> <<>>, unit |-> Undefined,
     hour |-> hour, minute |-> minute, ampm |-> ampm]

AtPhrases ==
    {AtPhrase(<<"at", " ", "3", "pm">>, 3, 0, "pm"),
     AtPhrase(<<"AT", " ", "1", "5", ":", "3", "0">>, 15, 30, Undefined),
     AtPhrase(<<"at", " ", "1", "2", "am">>, 12, 0, "am"),
     AtPhrase(<<"at", " ", "1", "2", "pm">>, 12, 0, "pm"),
     AtPhrase(<<"at", " ", "7">>, 7, 0, Undefined),
     AtPhrase(<<" ", "at", " ", "9", "am">>, 9, 0, "am"),
     AtPhrase(<<"at", " ", "9", ":", "0", "5", " ", "AM">>, 9, 5, "am")}

\* Strings the at-pattern matches that denote no time of day: hour 25, minute 75,
\* hour 13 with pm.
NoTimePhrases ==
    {[AtPhrase(<<"at", " ", "2", "5">>, 25, 0, Undefined) EXCEPT !.kind = "notime"],
     [AtPhrase(<<"at", " ", "3", ":", "7", "5">>, 3, 75, Undefined) EXCEPT !.kind = "notime"],
     [AtPhrase(<<"at", " ", "1", "3", "pm">>, 13, 0, "pm") EXCEPT !.kind = "notime"]}

OtherPhrases ==
    {Phrase(<<"banana">>, "other"),
     Phrase(<<"in", "5", " ", "minute", "s">>, "other"),
     Phrase(<<"in", " ", "minute", "s">>, "other"),
     Phrase(<<"in", " ", "5", " ", "week", "s">>, "other"),
     Phrase(<<"in", " ", "-", "5", " ", "hour">>, "other"),
     Phrase(<<"in", " ", "5", " ", "day", "s", "s">>, "other"),
     Phrase(<<"at", " ", "1", "2", "3">>, "other"),
     Phrase(<<"at", " ", "5", ":", "3">>, "other")}

\* Instants of the call: a day of November 2026, at 00:00:00.000 UTC, at noon, and
\* half a second before the next day; and 03:00 UTC of 1 November 2026, which is
\* 23:00 of 31 October in Toronto, three hours before its clocks go back.
DelayInstants ==
    {[kind |-> "date", day |-> 20761, ms |-> m] : m \in {0, 12 * 60 * 60 * 1000, MsPerDay - 500}}
        \cup {[kind |-> "date", day |-> 20758, ms |-> 3 * 60 * 60 * 1000]}

InitDelay ==
    /\ InitSessions("standalone", {StandaloneMount})
    /\ authEnabled = FALSE
    /\ InitOAuth
    /\ StartupOver
    /\ delayNow \in DelayInstants
    /\ delayInput \in InPhrases \cup AtPhrases \cup NoTimePhrases \cup OtherPhrases
    /\ delayOffset = TorontoOffsetAt(delayNow)
    /\ delayResult = [kind |-> "pending", day |-> 0, ms |-> 0]
    /\ CronIdle
    /\ HistoryIdle

NextDelay == ParseDelayCall

SpecDelay == InitDelay /\ [][NextDelay]_vars

\* -------------------------------------------------------- claims on parseDelay
\* The number a string of decimal digits denotes.
RECURSIVE DecimalValue(_)
DecimalValue(ds) ==
    IF ds = <<>> THEN 0
    ELSE LET rest == DecimalValue(Tail(ds))
             RECURSIVE Pow10(_)
             Pow10(n) == IF n = 0 THEN 1 ELSE 10 * Pow10(n - 1)
         IN DigitValue(Head(ds)) * Pow10(Len(ds) - 1) + rest

\* Units of the claim that make a day: 86400, 1440, 24, 1.
PerDay(unit) ==
    CASE unit = "second" -> 86400
      [] unit = "minute" -> 1440
      [] unit = "hour" -> 24
      [] unit = "day" -> 1

\* The instant T + N x (1000 | 60000 | 3600000 | 86400000) ms, in days and
\* milliseconds of the day.
InstantAfter(t, n, unit) ==
    LET msOfDay == t.ms + (n % PerDay(unit)) * (86400000 \div PerDay(unit))
    IN [kind |-> "date",
        day |-> t.day + (n \div PerDay(unit)) + (msOfDay \div 86400000),
        ms |-> msOfDay % 86400000]

\* C10. For an input "in <N> <unit>[s]" (in any case, blanks around it), parseDelay
\* called at T returns the instant T + N x unit, whatever the Toronto offset.
C10_InPhraseExact ==
    (delayInput.kind = "in" /\ delayResult.kind # "pending")
       => delayResult = InstantAfter(delayNow, DecimalValue(delayInput.digits),
                                     delayInput.unit)

\* The hour of the day that H with an am/pm mark denotes.
Resolve12(h, ampm) ==
    CASE ampm = "am" -> IF h = 12 THEN 0 ELSE h
      [] ampm = "pm" -> IF h < 12 THEN h + 12 ELSE h
      [] OTHER -> h

\* Milliseconds since midnight on the America/Toronto wall clock at instant t.
TorontoWallMs(t) == (t.ms + 86400000 - TorontoOffsetAt(t) * 3600000) % 86400000

\* Milliseconds from instant a to instant b (a few days apart at most).
Elapsed(a, b) == (b.day - a.day) * 86400000 + (b.ms - a.ms)

\* C11. For "at H[:MM][am|pm]" with a valid time of day parseDelay returns an
\* instant after now and at most 24 hours after it, at which the Toronto wall
\* clock reads the hour (by the 12-hour convention) and the minute asked for.
C11_AtNextTorontoTime ==
    (delayInput.kind = "at" /\ delayResult.kind # "pending")
       => /\ delayResult.kind = "date"
          /\ LET asked == (Resolve12(delayInput.hour, delayInput.ampm) * 60
                             + delayInput.minute) * 60000
                 read == TorontoWallMs(delayResult)
             IN asked <= read /\ read < asked + 1000
          /\ Elapsed(delayNow, delayResult) > 0
          /\ Elapsed(delayNow, delayResult) <= 86400000

\* C30. parseDelay rejects an "at" phrase that does not denote a time of day (an
\* hour above 23, or above 12 together with am/pm, or a minute above 59): it
\* returns null, not an instant.
C30_NoTimeOfDayRejected ==
    (delayInput.kind = "notime" /\ delayResult.kind # "pending")
       => (delayResult = Null)

\* C12. Every instant parseDelay returns, for either pattern, is strictly later
\* than the instant of the call.
C12_StrictlyLater ==
    delayResult.kind \notin {"pending", "null"}
       => (delayResult.kind = "date"
           /\ \/ delayResult.day > delayNow.day
              \/ delayResult.day = delayNow.day /\ delayResult.ms > delayNow.ms)

\* ------------------------------------------------- SpecCron: the cron tools, one call at a time
Call(name, args) == [name |-> name, args |-> args]

\* The ids a caller names: the two a job can get, and one no job gets.
CronIds == {slice(uuid) : uuid \in CronUuids} \cup {"ffffffff"}

\* Delay strings: "in 5 minutes", one matching neither pattern, and one beyond
\* the range of Date.
CronDelays ==
    {[text |-> <<"in", " ", "5", " ", "minute", "s">>, kind |-> "in",
      digits |-> <<"5">>, unit |-> "minute"],
     Phrase(<<"in", " ", "5", " ", "week", "s">>, "other"),
     [text |-> <<"in", " ", "1", "0", "0", "0", "0", "0", "0", "0", "0", " ", "day", "s">>,
      kind |-> "in", digits |-> <<"1", "0", "0", "0", "0", "0", "0", "0", "0">>,
      unit |-> "day"]}

CronCalls ==
    {Call("list_jobs", a) : a \in {EmptyMap, [include_disabled |-> FALSE]}}
    \cup {Call("create_job", a) :
             a \in {[schedule |-> "daily at 9am", description |-> "d", prompt |-> "p"],
                    [schedule |-> "daily at 9am", description |-> "d", prompt |-> "p",
                     enabled |-> FALSE]}}
    \cup {Call("edit_job", a) :
             a \in UNION {{[id |-> id, schedule |-> "0 * * * *", description |-> "d2",
                            prompt |-> "p2"],
                           [id |-> id, enabled |-> TRUE]} : id \in CronIds}}
    \cup {Call("delete_job", [id |-> id]) : id \in CronIds}
    \cup {Call("toggle_job", [id |-> id, enabled |-> b]) : id \in CronIds, b \in BOOLEAN}
    \cup {Call("get_job", [id |-> id]) : id \in CronIds}
    \cup {Call("schedule_once", [delay |-> d, description |-> "d", prompt |-> "p"]) :
             d \in CronDelays}
    \cup {Call("run_job", EmptyMap)}

InitCron ==
    /\ InitSessions("standalone", {StandaloneMount})
    /\ authEnabled = FALSE
    /\ InitOAuth
    /\ StartupOver
    /\ DelayIdle
    /\ cronFile = AbsentFile
    /\ cronNow = [kind |-> "date", day |-> 20761, ms |-> 12 * 60 * 60 * 1000]
    /\ cronInFlight = <<>>
    /\ cronLast = NoToolResult
    /\ HistoryIdle

NextCron ==
    \/ \E req \in CronCalls : DirectCall(req)
    \/ CronTick

SpecCron == InitCron /\ [][NextCron]_vars

\* ------------------------------------------------------ claims on the cron tools
\* The ids of the jobs of a list.
IdsOf(jobs) == {jobs[i].id : i \in 1..Len(jobs)}

\* The latest call returned a tool result that is not an error.
Succeeded(name) == cronLast.name = name /\ ~cronLast.isError /\ ~cronLast.thrown

\* C13. When the delay string matches neither pattern, parseDelay returns null and
\* schedule_once returns a tool result with isError whose text starts with
\* "Could not parse delay"; no job is created and the jobs file is unchanged.
C13_UnparsedDelayRefused ==
    (cronLast.name = "schedule_once" /\ cronLast.args.delay.kind = "other")
       => (/\ cronLast.runAt = Null
           /\ ~cronLast.thrown
           /\ cronLast.isError
           /\ cronLast.text = "Could not parse delay"
           /\ ~cronLast.saved
           /\ cronFile = cronLast.fileBefore)

\* An unmatched delay was refused while the file held a job.
C13_Witness ==
    /\ cronLast.name = "schedule_once"
    /\ cronLast.args.delay.kind = "other"
    /\ cronLast.isError
    /\ Len(cronFile.jobs) >= 1

\* C14. After create_job returns id J, get_job(J) reports the schedule, description
\* and prompt given, and enabled = true when enabled was not supplied; after
\* toggle_job(J, false), list_jobs(include_disabled = false) omits J and list_jobs()
\* still lists it; after delete_job(J), get_job(J) fails as not-found.
C14_JobLifecycle ==
    LET jobs == loadConfig(cronFile)
        J == cronLast.id
        found == findIndex(jobs, J)
    IN /\ Succeeded("create_job")
            => (/\ found # 0
                /\ jobs[found].schedule = cronLast.args.schedule
                /\ jobs[found].description = cronLast.args.description
                /\ jobs[found].prompt = cronLast.args.prompt
                /\ (~Supplied(cronLast.args, "enabled") => jobs[found].enabled))
       /\ (Succeeded("toggle_job") /\ ~cronLast.args.enabled)
            => (/\ J \notin IdsOf(SelectSeq(jobs, LAMBDA j : j.enabled))
                /\ J \in IdsOf(jobs))
       /\ Succeeded("delete_job") => (found = 0)

\* C15. edit_job, delete_job, toggle_job and get_job with an id that no stored job
\* has, and a call of an unknown tool, return a tool result with isError (nothing
\* is thrown) and do not write the jobs file.
C15_NotFoundIsToolError ==
    (\/ /\ cronLast.name \in {"edit_job", "delete_job", "toggle_job", "get_job"}
        /\ cronLast.args.id \notin IdsOf(cronLast.fileBefore.jobs)
     \/ cronLast.name \notin ToolNames \cup {"none"})
       => (/\ ~cronLast.thrown
           /\ cronLast.isError
           /\ ~cronLast.saved
           /\ cronFile = cronLast.fileBefore)

\* toggle_job named an id that none of the stored jobs has.
C15_Witness ==
    /\ cronLast.name = "toggle_job"
    /\ Len(cronLast.fileBefore.jobs) >= 1
    /\ cronLast.args.id \notin IdsOf(cronLast.fileBefore.jobs)
    /\ cronLast.isError

\* The fields of job a that differ from those of job b.
Changed(a, b) ==
    {f \in DOMAIN a \cup DOMAIN b : f \notin DOMAIN a \/ f \notin DOMAIN b \/ a[f] # b[f]}

\* Instant a is not later than instant b.
NotLater(a, b) == a.day < b.day \/ (a.day = b.day /\ a.ms <= b.ms)

\* C23. Cron mutators change only what they target: edit_job overwrites exactly the
\* supplied fields among schedule, description, prompt and enabled and sets
\* updated_at (to an instant from the previous update to now); toggle_job changes only enabled and updated_at; delete_job removes
\* exactly the job addressed by the id; the target's id, created_at, run_once and
\* run_at, every other job's record and the order of the remaining jobs stay as
\* they were.
C23_MutatorsFrame ==
    LET before == cronLast.fileBefore.jobs
        after == cronFile.jobs
        args == cronLast.args
        t == findIndex(before, args.id)
    IN /\ (Succeeded("edit_job") \/ Succeeded("toggle_job"))
            => (/\ Len(after) = Len(before)
                /\ \A i \in 1..Len(before) : (i # t) => (after[i] = before[i])
                /\ before[t].id = args.id
                /\ after[t].updated_at.kind = "iso"
                /\ NotLater(before[t].updated_at, after[t].updated_at)
                /\ NotLater(after[t].updated_at, cronNow)
                /\ Changed(after[t], before[t]) \subseteq
                      (IF cronLast.name = "toggle_job" THEN {"enabled"}
                       ELSE {f \in {"schedule", "description", "prompt", "enabled"} :
                               Supplied(args, f)}) \cup {"updated_at"}
                /\ \A f \in {"schedule", "description", "prompt", "enabled"} :
                      Supplied(args, f) => (after[t][f] = args[f]))
       /\ Succeeded("delete_job")
            => (/\ before[t].id = args.id
                /\ after = splice(before, t))

\* edit_job changed the second of two jobs, a one-off job carrying run_once and run_at.
C23_Witness ==
    /\ Succeeded("edit_job")
    /\ Len(cronLast.fileBefore.jobs) = 2
    /\ findIndex(cronLast.fileBefore.jobs, cronLast.args.id) = 2
    /\ "run_at" \in DOMAIN cronLast.fileBefore.jobs[2]
    /\ cronFile.jobs[2] # cronLast.fileBefore.jobs[2]

\* C25. In every reachable state of the job store a job carries run_at if and only
\* if it carries run_once = true: schedule_once appends a job with enabled = true,
\* run_once = true and run_at the ISO-8601 form of the parseDelay result (for
\* "in 5 minutes", five minutes after the call), create_job appends a job with
\* neither field, and no other operation adds or removes either.
C25_RunAtIffRunOnce ==
    LET jobs == cronFile.jobs
        new == jobs[Len(jobs)]
    IN /\ \A i \in 1..Len(jobs) :
             ("run_at" \in DOMAIN jobs[i])
                <=> ("run_once" \in DOMAIN jobs[i] /\ jobs[i].run_once = TRUE)
       /\ Succeeded("schedule_once")
            => (/\ Len(jobs) = Len(cronLast.fileBefore.jobs) + 1
                /\ new.enabled = TRUE
                /\ new.run_once = TRUE
                /\ new.run_at = toISOString(cronLast.runAt)
                /\ new.run_at.kind = "iso"
                /\ new.run_at.day = new.created_at.day
                /\ new.run_at.ms = new.created_at.ms + 5 * 60 * 1000)
       /\ Succeeded("create_job")
            => (/\ Len(jobs) = Len(cronLast.fileBefore.jobs) + 1
                /\ DOMAIN new \cap {"run_once", "run_at"} = {})

\* toggle_job changed a one-off job while the file also held an ordinary job.
C25_Witness ==
    /\ Succeeded("toggle_job")
    /\ Len(cronFile.jobs) = 2
    /\ \E i \in 1..2 :
         /\ "run_at" \in DOMAIN cronFile.jobs[i]
         /\ cronFile.jobs[i] # cronLast.fileBefore.jobs[i]
         /\ "run_at" \notin DOMAIN cronFile.jobs[3 - i]

\* C29. Job ids are unique within the store: after any sequence of create_job,
\* schedule_once, edit_job, toggle_job and delete_job calls no two persisted jobs
\* have the same id, so a call by id addresses exactly one job.
C29_JobIdsUnique ==
    \A i, j \in 1..Len(cronFile.jobs) :
        (i # j) => (cronFile.jobs[i].id # cronFile.jobs[j].id)

\* ------------------------------------- SpecCronHttp: tool calls held concurrently
\* The write tools, called by HTTP clients that do not wait for each other.
HttpCalls ==
    {Call("create_job", [schedule |-> "daily at 9am", description |-> "d", prompt |-> "p"]),
     Call("edit_job", [id |-> "0a1b2c3d", enabled |-> TRUE]),
     Call("delete_job", [id |-> "0a1b2c3d"]),
     Call("toggle_job", [id |-> "0a1b2c3d", enabled |-> FALSE]),
     Call("schedule_once",
          [delay |-> [text |-> <<"in", " ", "5", " ", "minute", "s">>, kind |-> "in",
                      digits |-> <<"5">>, unit |-> "minute"],
           description |-> "d", prompt |-> "p"])}

NextCronHttp ==
    \/ \E req \in HttpCalls : ReceiveCall(req)
    \/ \E i \in 1..MaxInFlight : HandleCall(i)

SpecCronHttp == InitCron /\ [][NextCronHttp]_vars

\* The latest step saved the file for a request that arrived before the save of
\* another request's handler and was handled after it: two writes handled concurrently.
ConcurrentWrite == cronLast.saved /\ cronLast.overtaken

\* C20 as stated. Of two write operations handled concurrently, the later one saves
\* what it loaded before the earlier one saved: what it loaded is not what the file
\* holds when it saves, and the earlier update is lost.
C20_ConcurrentWritesRace ==
    ConcurrentWrite => (cronLast.loaded # cronLast.fileBefore.jobs)

\* C20, amended. Within one process a write operation loads, modifies and saves
\* without another handler in between: a write handled concurrently with an earlier
\* one has loaded what the earlier save left, and its save adds, changes or removes
\* its own job only, so no update is lost.
C20_WritesDoNotInterleave ==
    ConcurrentWrite
       => LET before == cronLast.fileBefore.jobs
              after == cronFile.jobs
              target == findIndex(before, cronLast.args.id)
          IN /\ cronLast.loaded = before
             /\ (cronLast.name \in {"create_job", "schedule_once"})
                  => (/\ Len(after) = Len(before) + 1
                      /\ SubSeq(after, 1, Len(before)) = before)
             /\ (cronLast.name \in {"edit_job", "toggle_job"})
                  => (/\ Len(after) = Len(before)
                      /\ \A i \in 1..Len(before) : (i # target) => (after[i] = before[i]))
             /\ (cronLast.name = "delete_job") => (after = splice(before, target))

\* Two create_job calls were in the process together and both jobs are in the file.
C20_Witness ==
    /\ ConcurrentWrite
    /\ cronLast.name = "create_job"
    /\ Len(cronLast.fileBefore.jobs) = 1
    /\ Len(cronFile.jobs) = 2

\* ------------------------------- SpecCronFaults: the cron tools over a failing file
FaultCalls ==
    {Call("list_jobs", EmptyMap),
     Call("create_job", [schedule |-> "daily at 9am", description |-> "d", prompt |-> "p"]),
     Call("edit_job", [id |-> "0a1b2c3d", enabled |-> FALSE]),
     Call("delete_job", [id |-> "0a1b2c3d"]),
     Call("toggle_job", [id |-> "0a1b2c3d", enabled |-> FALSE]),
     Call("get_job", [id |-> "0a1b2c3d"]),
     Call("run_job", EmptyMap)}
    \cup {Call("schedule_once", [delay |-> d, description |-> "d", prompt |-> "p"]) :
             d \in CronDelays}

NextCronFaults ==
    \/ \E req \in FaultCalls : DirectCall(req)
    \/ ReadFault
    \/ WriteFault

SpecCronFaults == InitCron /\ [][NextCronFaults]_vars

\* The latest call met a failure: the file it loaded could not be read or parsed, an
\* exception left the handler, or the handler reported an error.
CallFailed ==
    \/ cronLast.didLoad /\ cronLast.fileBefore.exists /\ ~cronLast.fileBefore.readable
    \/ cronLast.thrown
    \/ cronLast.isError

\* C21. Every failure inside a cron tool call, a failure to read, parse or write the
\* jobs file included, is returned as a tool result with isError and a message: it is
\* neither thrown out of the handler nor answered as a success.
C21_FailuresAreToolErrors ==
    (cronLast.name # "none" /\ CallFailed)
       => (/\ ~cronLast.thrown
           /\ cronLast.isError
           /\ cronLast.text # Undefined)

\* --------------------------------------- SpecHistory: conversation history
\* The message saved as the k-th of a channel: the roles alternate from "user".
MessageAt(k) ==
    [role |-> IF k % 2 = 1 THEN "user" ELSE "assistant", text |-> k, timestamp |-> k]

\* Values of n a caller passes (the schema asks for a number).
RequestedN == {0 - 2, 0, 1, 3, 10, 12}

InitHistory ==
    /\ InitSessions("standalone", {StandaloneMount})
    /\ authEnabled = FALSE
    /\ InitOAuth
    /\ StartupOver
    /\ DelayIdle
    /\ CronIdle
    /\ HistoryIdle

NextHistory ==
    \/ \E c \in ChannelIds :
          saveMessage(c, MessageAt(Len(loadHistory(histories, c)) + 1))
    \/ \E c \in ChannelIds : get_history([channel_id |-> c])
    \/ \E c \in ChannelIds, n \in RequestedN : get_history([channel_id |-> c, n |-> n])

SpecHistory == InitHistory /\ [][NextHistory]_vars

\* C22. get_history returns the last N messages: for every stored history h and
\* every requested count n (10 when none is given), at most n messages are returned,
\* and they are the final min(n, |h|) messages of h in their stored order.
C22_LastNMessages ==
    (historyLast.name = "get_history" /\ OrDefault(historyLast.args, "n", 10) >= 0)
       => LET h == loadHistory(historyLast.filesBefore, historyLast.args.channel_id)
              n == OrDefault(historyLast.args, "n", 10)
              k == IF n < Len(h) THEN n ELSE Len(h)
          IN /\ Len(historyLast.messages) <= n
             /\ Len(historyLast.messages) = k
             /\ \A i \in 1..k : historyLast.messages[i] = h[Len(h) - k + i]

====
